---------------------------- MODULE Spec2Model ----------------------------
(***************************************************************************)
(* A model of the wasm interpreter of kogai/vm: the typed values and their *)
(* arithmetic (src/src/value.rs), the traps (src/src/trap.rs) and the      *)
(* evaluation loop of Vm (src/src/lib.rs).                                 *)
(*                                                                         *)
(* Integers keep their width.  An i32 is a sequence of 32 bits and an i64  *)
(* a sequence of 64 bits, least significant bit first, in two's            *)
(* complement; an unsigned cast (`as u32`, `as u64`) reads the same bits.  *)
(* The operations of the Rust standard library that value.rs calls         *)
(* (wrapping_add, overflowing_div, wrapping_shl, ...) are defined on the   *)
(* bits.                                                                   *)
(***************************************************************************)
EXTENDS Integers, Sequences, FiniteSets, TLC

(***************************************************************************)
(* Bits                                                                    *)
(***************************************************************************)
Zero(N) == [i \in 1..N |-> 0]
One(N) == [i \in 1..N |-> IF i = 1 THEN 1 ELSE 0]
AllOnes(N) == [i \in 1..N |-> 1]
\* i32::MIN, i64::MIN: only the sign bit set
IntMin(N) == [i \in 1..N |-> IF i = N THEN 1 ELSE 0]
\* i32::MAX, i64::MAX
IntMax(N) == [i \in 1..N |-> IF i = N THEN 0 ELSE 1]

\* The N-bit two's complement pattern of n, for -2^31 <= n < 2^31.
FromInt(n, N) ==
  [i \in 1..N |-> IF i <= 31 THEN (n \div (2 ^ (i - 1))) % 2
                  ELSE IF n < 0 THEN 1 ELSE 0]

\* The number an unsigned bit pattern below 2^31 stands for.
RECURSIVE ToNatFrom(_, _)
ToNatFrom(a, i) ==
  IF i = 0 THEN 0 ELSE a[i] + 2 * ToNatFrom(a, i - 1)
RECURSIVE HighestSet(_, _)
HighestSet(a, i) ==
  IF i = 0 THEN 0 ELSE IF a[i] = 1 THEN i ELSE HighestSet(a, i - 1)
ToNat(a) ==
  LET h == HighestSet(a, Len(a))
      rev == [i \in 1..h |-> a[h + 1 - i]]
  IN  ToNatFrom(rev, h)

bitand(a, b) == [i \in 1..Len(a) |-> a[i] * b[i]]
bitor(a, b) == [i \in 1..Len(a) |-> IF a[i] + b[i] > 0 THEN 1 ELSE 0]
bitxor(a, b) == [i \in 1..Len(a) |-> (a[i] + b[i]) % 2]
BitNot(a) == [i \in 1..Len(a) |-> 1 - a[i]]

\* st after F(st, lo), F(., lo + 1), ..., F(., hi): a loop over lo..hi.  The range
\* is split in halves, and the state after the first half is bound as the element
\* of a singleton set, so that it is computed before the second half starts: the
\* evaluation then nests only logarithmically deep in hi - lo.
RECURSIVE Iterate(_, _, _, _)
Iterate(F(_, _), st, lo, hi) ==
  IF lo > hi THEN st
  ELSE IF lo = hi THEN F(st, lo)
  ELSE LET mid == (lo + hi) \div 2
       IN  CHOOSE end \in {Iterate(F, half, mid + 1, hi) :
                             half \in {Iterate(F, st, lo, mid)}} : TRUE

\* Ripple-carry addition: the sum modulo 2^N and the carry out of bit N-1.
AddCarry(a, b, c) ==
  LET AddStep(sa, ia) ==
        LET s == a[ia] + b[ia] + sa.carry
        IN  [bits |-> Append(sa.bits, s % 2), carry |-> s \div 2]
  IN  Iterate(AddStep, [bits |-> <<>>, carry |-> c], 1, Len(a))

\* Variant of wrapping_add: a signed overflow saturates at the extreme.
saturating_add(a, b) ==
  LET N == Len(a)
      r == AddCarry(a, b, 0).bits
  IN  IF a[N] = b[N] /\ r[N] # a[N]
      THEN (IF a[N] = 0 THEN IntMax(N) ELSE IntMin(N))
      ELSE r
wrapping_add(a, b) == AddCarry(a, b, 0).bits
wrapping_sub(a, b) == AddCarry(a, BitNot(b), 1).bits
wrapping_neg(a) == AddCarry(Zero(Len(a)), BitNot(a), 1).bits

\* a shifted left by k places, zero filled
Shl(a, k) == [i \in 1..Len(a) |-> IF i > k THEN a[i - k] ELSE 0]
\* a shifted right by k places, filled with the bit `fill`
Shr(a, k, fill) == [i \in 1..Len(a) |-> IF i + k <= Len(a) THEN a[i + k] ELSE fill]

\* Shift-and-add multiplication modulo 2^N.
wrapping_mul(a, b) ==
  LET MulStep(acc, im) ==
        IF b[im] = 1 THEN AddCarry(acc, Shl(a, im - 1), 0).bits ELSE acc
  IN  Iterate(MulStep, Zero(Len(a)), 1, Len(a))

\* Unsigned and signed order on equal-width patterns.
RECURSIVE ULtFrom(_, _, _)
ULtFrom(a, b, i) ==
  IF i = 0 THEN FALSE
  ELSE IF a[i] # b[i] THEN a[i] < b[i]
  ELSE ULtFrom(a, b, i - 1)
ULt(a, b) == ULtFrom(a, b, Len(a))
SLt(a, b) ==
  IF a[Len(a)] # b[Len(b)] THEN a[Len(a)] = 1 ELSE ULt(a, b)

\* Restoring long division of unsigned patterns, b # 0: quotient and remainder.
\* The remainder is kept one bit wider than the operands.
UDivRem(a, b) ==
  LET N == Len(a)
      b1 == Append(b, 0)
      DivStep(sd, k) ==
        LET id == N + 1 - k
            r1 == <<a[id]>> \o SubSeq(sd.r, 1, N)
        IN  IF ULt(r1, b1)
            THEN [q |-> sd.q, r |-> r1]
            ELSE [q |-> [sd.q EXCEPT ![id] = 1], r |-> wrapping_sub(r1, b1)]
      QuotRem(end) == [q |-> end.q, r |-> SubSeq(end.r, 1, N)]
  IN  QuotRem(Iterate(DivStep, [q |-> Zero(N), r |-> Zero(N + 1)], 1, N))

IsNeg(a) == a[Len(a)] = 1
Magnitude(a) == IF IsNeg(a) THEN wrapping_neg(a) ELSE a

\* iN::overflowing_div: (self, true) for MIN / -1, else the truncated quotient
overflowing_div(a, b) ==
  IF a = IntMin(Len(a)) /\ b = AllOnes(Len(a))
  THEN [val |-> a, overflowed |-> TRUE]
  ELSE LET Signed(q) ==
             [val |-> IF IsNeg(a) # IsNeg(b) THEN wrapping_neg(q) ELSE q,
              overflowed |-> FALSE]
       IN  Signed(UDivRem(Magnitude(a), Magnitude(b)).q)
\* iN::overflowing_rem: (0, true) for MIN % -1, else the remainder, signed as self
overflowing_rem(a, b) ==
  IF a = IntMin(Len(a)) /\ b = AllOnes(Len(a))
  THEN [val |-> Zero(Len(a)), overflowed |-> TRUE]
  ELSE LET Signed(r) ==
             [val |-> IF IsNeg(a) THEN wrapping_neg(r) ELSE r,
              overflowed |-> FALSE]
       IN  Signed(UDivRem(Magnitude(a), Magnitude(b)).r)
\* uN::overflowing_div, uN::overflowing_rem: never overflow
overflowing_div_unsign(a, b) == [val |-> UDivRem(a, b).q, overflowed |-> FALSE]
overflowing_rem_unsign(a, b) == [val |-> UDivRem(a, b).r, overflowed |-> FALSE]

\* `other as u32`: the low 32 bits
as_u32(a) == SubSeq(a, 1, 32)
\* The shift count the wrapping shifts and the rotations use: rhs modulo N.
ShiftCount(rhs, N) == ToNat(SubSeq(rhs, 1, IF N = 32 THEN 5 ELSE 6))
wrapping_shl(a, rhs) == Shl(a, ShiftCount(rhs, Len(a)))
\* iN::wrapping_shr is arithmetic, uN::wrapping_shr logical
wrapping_shr(a, rhs) == Shr(a, ShiftCount(rhs, Len(a)), a[Len(a)])
wrapping_shr_unsign(a, rhs) == Shr(a, ShiftCount(rhs, Len(a)), 0)
rotate_left(a, rhs) ==
  LET N == Len(a)
      k == ShiftCount(rhs, N)
  IN  [i \in 1..N |-> a[((i - 1 - k + N) % N) + 1]]
rotate_right(a, rhs) ==
  LET N == Len(a)
      k == ShiftCount(rhs, N)
  IN  [i \in 1..N |-> a[((i - 1 + k) % N) + 1]]

(***************************************************************************)
(* src/src/trap.rs                                                         *)
(***************************************************************************)
\* enum Trap
Trap ==
  {"DivisionOverflow", "DivisionByZero", "MemoryAccessOutOfBounds",
   "BitshiftOverflow", "IntegerOverflow", "InvalidConversionToInt", "Unknown",
   "StackOverflow", "StackUnderflow", "Notfound", "Undefined",
   "UndefinedElement", "TypeMismatch", "IndirectCallTypeMismatch", "FailToGrow",
   "UnexpectedEnd", "InvalidSectionId", "LengthOutofBounds", "Unreachable",
   "UnknownImport"}

\* impl From<Trap> for String: the text run hands to its caller
TrapString(x) ==
  CASE x = "DivisionOverflow" -> "integer overflow"
    [] x = "DivisionByZero" -> "integer divide by zero"
    [] x = "MemoryAccessOutOfBounds" -> "out of bounds memory access"
    [] x = "BitshiftOverflow" -> "bit shift overflow"
    [] x = "IntegerOverflow" -> "integer overflow"
    [] x = "Unknown" -> "unknown"
    [] x = "Undefined" -> "undefined behavior occurred"
    [] x = "UndefinedElement" -> "undefined element"
    [] x = "Notfound" -> "not found"
    [] x = "StackOverflow" -> "stack overflow"
    [] x = "StackUnderflow" -> "stack underflow"
    [] x = "TypeMismatch" -> "type mismatch"
    [] x = "IndirectCallTypeMismatch" -> "indirect call type mismatch"
    [] x = "FailToGrow" -> "fail to grow"
    [] x = "InvalidConversionToInt" -> "invalid conversion to integer"
    [] x = "UnexpectedEnd" -> "unexpected end"
    [] x = "InvalidSectionId" -> "invalid section id"
    [] x = "LengthOutofBounds" -> "length out of bounds"
    [] x = "Unreachable" -> "unreachable executed"
    [] x = "UnknownImport" -> "unknown import"

\* Result<T, Trap>
Ok(v) == [ok |-> TRUE, val |-> v]
Err(trap) == [ok |-> FALSE, trap |-> trap]

(***************************************************************************)
(* src/src/value.rs: trait Arithmetic, implemented for (i32, u32) and      *)
(* (i64, u64) by impl_traits!.  self and other are bit patterns of one     *)
(* width.                                                                  *)
(***************************************************************************)
\* `if c { 1 } else { 0 }` in the operand's own type
FromBool(c, N) == IF c THEN One(N) ELSE Zero(N)

equal_zero(self) == FromBool(self = Zero(Len(self)), Len(self))
count_leading_zero(self) ==
  FromInt(Len(self) - HighestSet(self, Len(self)), Len(self))
count_trailing_zero(self) ==
  LET N == Len(self)
      rev == [i \in 1..N |-> self[N + 1 - i]]
  IN  FromInt(IF self = Zero(N) THEN N ELSE N - HighestSet(rev, N), N)
pop_count(self) ==
  FromInt(Cardinality({i \in 1..Len(self) : self[i] = 1}), Len(self))

less_than(self, other) == FromBool(SLt(self, other), Len(self))
less_than_equal(self, other) == FromBool(~SLt(other, self), Len(self))
less_than_unsign(self, other) == FromBool(ULt(self, other), Len(self))
less_than_equal_unsign(self, other) == FromBool(~ULt(other, self), Len(self))
greater_than(self, other) == FromBool(SLt(other, self), Len(self))
greater_than_equal(self, other) == FromBool(~SLt(self, other), Len(self))
greater_than_unsign(self, other) == FromBool(ULt(other, self), Len(self))
greater_than_equal_unsign(self, other) == FromBool(~ULt(self, other), Len(self))
equal(self, other) == FromBool(self = other, Len(self))
not_equal(self, other) == FromBool(self # other, Len(self))

shift_left(self, other) == wrapping_shl(self, as_u32(other))
\* the casts to the unsigned type and back keep the bits of the signed shift
shift_right_sign(self, other) == wrapping_shr(self, as_u32(other))
shift_right_unsign(self, other) == wrapping_shr_unsign(self, as_u32(other))
wasm_rotate_left(self, other) == rotate_left(self, as_u32(other))
wasm_rotate_right(self, other) == rotate_right(self, as_u32(other))

\* Variant of rem_s: the overflow flag of overflowing_rem is reported, as
\* div_s reports the flag of overflowing_div.
rem_s_checked(self, other) ==
  IF other = Zero(Len(other)) THEN Err("DivisionByZero")
  ELSE LET checked(d) ==
             IF d.overflowed THEN Err("DivisionOverflow") ELSE Ok(d.val)
       IN  checked(overflowing_rem(self, other))

rem_s(self, other) ==
  IF other = Zero(Len(other)) THEN Err("DivisionByZero")
  ELSE Ok(overflowing_rem(self, other).val)

\* Variant of rem_u: a zero divisor is reported as an overflow.
rem_u_zero_as_overflow(self, other) ==
  IF other = Zero(Len(other)) THEN Err("DivisionOverflow")
  ELSE Ok(overflowing_rem_unsign(self, other).val)

rem_u(self, other) ==
  IF other = Zero(Len(other)) THEN Err("DivisionByZero")
  ELSE LET checked(d) ==
             IF d.overflowed THEN Err("DivisionOverflow") ELSE Ok(d.val)
       IN  checked(overflowing_rem_unsign(self, other))

div_u(self, other) ==
  IF other = Zero(Len(other)) THEN Err("DivisionByZero")
  ELSE LET checked(d) ==
             IF d.overflowed THEN Err("DivisionOverflow") ELSE Ok(d.val)
       IN  checked(overflowing_div_unsign(self, other))

div_s(self, other) ==
  IF other = Zero(Len(other)) THEN Err("DivisionByZero")
  ELSE LET checked(d) ==
             IF d.overflowed THEN Err("DivisionOverflow") ELSE Ok(d.val)
       IN  checked(overflowing_div(self, other))

(***************************************************************************)
(* src/src/value.rs: enum Values and its methods                           *)
(***************************************************************************)
I32(b) == [ty |-> "I32", bits |-> b]
I64(b) == [ty |-> "I64", bits |-> b]
\* What an expression yields once unimplemented!(), unreachable!() or a failed
\* expect() has panicked: no value, the thread unwinds.
Panicked == [ty |-> "panic"]
IsPanicked(v) == v.ty = "panic"

\* impl Values, `bynary_inst!($fn_name, $op)`: the method $op of the integer
\* type that Values::$fn_name applies to the two operands
binary_op(fn_name, l, r) ==
  CASE fn_name = "and" -> bitand(l, r)
    [] fn_name = "or" -> bitor(l, r)
    [] fn_name = "xor" -> bitxor(l, r)
    [] fn_name = "add" -> wrapping_add(l, r)
    [] fn_name = "sub" -> wrapping_sub(l, r)
    [] fn_name = "mul" -> wrapping_mul(l, r)
    [] fn_name = "less_than" -> less_than(l, r)
    [] fn_name = "less_than_equal" -> less_than_equal(l, r)
    [] fn_name = "less_than_unsign" -> less_than_unsign(l, r)
    [] fn_name = "less_than_equal_unsign" -> less_than_equal_unsign(l, r)
    [] fn_name = "greater_than" -> greater_than(l, r)
    [] fn_name = "greater_than_equal" -> greater_than_equal(l, r)
    [] fn_name = "greater_than_unsign" -> greater_than_unsign(l, r)
    [] fn_name = "greater_than_equal_unsign" ->
         greater_than_equal_unsign(l, r)
    [] fn_name = "equal" -> equal(l, r)
    [] fn_name = "not_equal" -> not_equal(l, r)
    [] fn_name = "shift_left" -> shift_left(l, r)
    [] fn_name = "shift_right_sign" -> shift_right_sign(l, r)
    [] fn_name = "shift_right_unsign" -> shift_right_unsign(l, r)
    [] fn_name = "wasm_rotate_left" -> wasm_rotate_left(l, r)
    [] fn_name = "wasm_rotate_right" -> wasm_rotate_right(l, r)

\* impl Values, `bynary_try_inst!($fn_name, $op)`
try_binary_op(fn_name, l, r) ==
  CASE fn_name = "rem_s" -> rem_s(l, r)
    [] fn_name = "rem_u" -> rem_u(l, r)
    [] fn_name = "div_s" -> div_s(l, r)
    [] fn_name = "div_u" -> div_u(l, r)

\* impl Values, `unary_inst!($fn_name, $op)`
unary_op(fn_name, l) ==
  CASE fn_name = "equal_zero" -> equal_zero(l)
    [] fn_name = "count_leading_zero" -> count_leading_zero(l)
    [] fn_name = "count_trailing_zero" -> count_trailing_zero(l)
    [] fn_name = "pop_count" -> pop_count(l)

\* macro unary_inst!: the result has the type of the operand
unary_inst(fn_name, self) ==
  IF IsPanicked(self) THEN Panicked
  ELSE [ty |-> self.ty, bits |-> unary_op(fn_name, self.bits)]

\* macro bynary_inst!: the result has the type of the operands; operands of
\* different types reach unimplemented!()
bynary_inst(fn_name, self, other) ==
  IF IsPanicked(self) \/ IsPanicked(other) THEN Panicked
  ELSE IF self.ty = other.ty
       THEN [ty |-> self.ty, bits |-> binary_op(fn_name, self.bits, other.bits)]
       ELSE Panicked

\* macro bynary_try_inst!
bynary_try_inst(fn_name, self, other) ==
  IF IsPanicked(self) \/ IsPanicked(other) THEN Ok(Panicked)
  ELSE IF self.ty = other.ty
       THEN LET typed(r) ==
                  IF r.ok THEN Ok([ty |-> self.ty, bits |-> r.val]) ELSE r
            IN  typed(try_binary_op(fn_name, self.bits, other.bits))
       ELSE Ok(Panicked)

\* Values::is_truthy: `*n > 0` on an I32, unimplemented!() on the rest.
\* The result is "true", "false" or "panic".
is_truthy(self) ==
  IF self.ty = "I32"
  THEN (IF ~IsNeg(self.bits) /\ self.bits # Zero(32) THEN "true" ELSE "false")
  ELSE "panic"

\* Values::extend_to_i64: i64::from(i32) keeps the sign
extend_to_i64(self) ==
  IF self.ty = "I32"
  THEN I64([i \in 1..64 |-> IF i <= 32 THEN self.bits[i] ELSE self.bits[32]])
  ELSE Panicked

(***************************************************************************)
(* Bounds of the model                                                     *)
(***************************************************************************)
\* Capacity of the stack: Vm::new builds Stack::new(65536)
StackSize == 65536
\* Nested calls of Vm::evaluate the native stack of the thread has room for.
\* evaluate, evaluate_frame and evaluate_instructions call one another once per
\* Call of the program, so a recursion of the program exhausts the native
\* stack and the process aborts.  The figure depends on the build and on the
\* thread (some thousands); it stays far below the StackSize entries a
\* recursion that pushes one local per call would need to fill the stack.
MaxDepth == 4
\* Pages of linear memory the module declares (64 KiB each)
MemPages == 1
\* Number of run calls followed on one Vm
MaxRuns == 3

(***************************************************************************)
(* The stack (mod stack of src/src/lib.rs).  The machine record m carries  *)
(* the fields of Stack (entries, stack_ptr, frame_ptr, is_empty) together  *)
(* with three fields of the model: panic, the message of the panic that    *)
(* unwinds the thread ("" while there is none), log, the instructions      *)
(* dispatched and the traps raised during the current run, and depth, the  *)
(* number of calls of Vm::evaluate nested in the one running.  Index i of  *)
(* the Rust vector is entries[i + 1]; entries holds the vector up to the   *)
(* last entry written, the stack_size - Len(entries) entries above it are  *)
(* still the Empty they were built as.                                     *)
(***************************************************************************)
Empty == [kind |-> "Empty"]
new_value(v) == [kind |-> "Value", v |-> v]
new_label(expressions) == [kind |-> "Label", expressions |-> expressions]
new_fram(frame) == [kind |-> "Frame", frame |-> frame]
Frame(locals, return_ptr, function_idx) ==
  [locals |-> locals, return_ptr |-> return_ptr, function_idx |-> function_idx]
None == [kind |-> "None"]

Stack_new(stack_size) ==
  [entries |-> <<>>, stack_size |-> stack_size, stack_ptr |-> 0,
   frame_ptr |-> <<>>, is_empty |-> TRUE, panic |-> "", log |-> <<>>,
   depth |-> 0]

\* entries[idx] of the Rust vector, for idx below stack_size
entry_at(m, idx) == IF idx < Len(m.entries) THEN m.entries[idx + 1] ELSE Empty
\* the Rust vector after `entries[idx] = entry`, for idx below stack_size
entries_with(m, idx, entry) ==
  [i \in 1..(IF idx < Len(m.entries) THEN Len(m.entries) ELSE idx + 1) |->
     IF i = idx + 1 THEN entry
     ELSE IF i <= Len(m.entries) THEN m.entries[i] ELSE Empty]

\* the process is aborted: the native stack is exhausted
StackExhausted == "thread has overflowed its stack"

Panic(m, message) == IF m.panic = "" THEN [m EXCEPT !.panic = message] ELSE m
Logged(m, event) == [m EXCEPT !.log = Append(@, event)]

\* Stack::push: at capacity nothing is stored and StackOverflow is returned
push(m, entry) ==
  IF m.panic # "" THEN [m |-> m, res |-> "Ok"]
  ELSE IF m.stack_ptr >= m.stack_size
  THEN [m |-> Logged(m, <<"overflow">>), res |-> "StackOverflow"]
  ELSE [m |-> [m EXCEPT !.entries = entries_with(m, m.stack_ptr, entry),
                        !.stack_ptr = @ + 1,
                        !.is_empty = FALSE],
        res |-> "Ok"]

\* Stack::pop: None on an empty stack; the entry stays in the vector
pop(m) ==
  IF m.panic # "" THEN [m |-> m, e |-> None]
  ELSE IF m.stack_ptr = 0 THEN [m |-> [m EXCEPT !.is_empty = TRUE], e |-> None]
  ELSE [m |-> [m EXCEPT !.stack_ptr = @ - 1, !.is_empty = (m.stack_ptr = 1)],
        e |-> entry_at(m, m.stack_ptr - 1)]

\* Stack::pop_value: panics unless the popped entry is a Value
pop_value(m) ==
  LET p == pop(m)
  IN  IF p.e.kind = "Value" THEN [m |-> p.m, v |-> p.e.v]
      ELSE [m |-> Panic(p.m, "Expect to pop value"), v |-> Panicked]

\* Stack::get: the entry at an absolute index, None outside the vector
get(m, idx) == IF idx < m.stack_size THEN entry_at(m, idx) ELSE None

\* Stack::set: overwrites the entry at an absolute index
set(m, idx, entry) ==
  IF m.panic # "" THEN m
  ELSE IF idx < m.stack_size
  THEN [m EXCEPT !.entries = entries_with(m, idx, entry)]
  ELSE Panic(m, "index out of bounds")

\* Stack::get_frame_ptr: the frame pointer pushed last
get_frame_ptr(m) ==
  IF Len(m.frame_ptr) = 0 THEN 0 ELSE m.frame_ptr[Len(m.frame_ptr)]

\* Stack::update_frame_ptr: stack_ptr goes back to the frame pointer pushed last
update_frame_ptr(m) ==
  IF m.panic # "" THEN m
  ELSE IF Len(m.frame_ptr) = 0 THEN Panic(m, "no frame pointer")
  ELSE [m EXCEPT !.stack_ptr = m.frame_ptr[Len(m.frame_ptr)],
                 !.frame_ptr = SubSeq(@, 1, Len(@) - 1),
                 !.is_empty = (m.frame_ptr[Len(m.frame_ptr)] = 0)]

\* Stack::increase: room for the declared locals, which start as zero
RECURSIVE increase(_, _)
increase(m, count) ==
  IF count = 0 THEN m ELSE increase(push(m, new_value(I32(Zero(32)))).m, count - 1)

(***************************************************************************)
(* Instructions (src/src/inst.rs, enum Inst) as records                    *)
(***************************************************************************)
Op(name) == [op |-> name]
I32Const(n) == [op |-> "I32Const", n |-> FromInt(n, 32)]
GetLocal(idx) == [op |-> "GetLocal", idx |-> idx]
Call(idx) == [op |-> "Call", idx |-> idx]
If(return_type, if_ops, else_ops) ==
  [op |-> "If", return_type |-> return_type, if_ops |-> if_ops,
   else_ops |-> else_ops]
\* a load carries (align, offset); offset is a u32 bit pattern
Load(name, align, offset) == [op |-> name, align |-> align, offset |-> offset]

(***************************************************************************)
(* The store (mod store and mod memory of src/src/lib.rs)                  *)
(***************************************************************************)
\* FunctionType::new
FunctionType_new(parameters, returns) ==
  [parameters |-> parameters, returns |-> returns]

\* FunctionInstance::new: function_type is a Result<FunctionType>
FunctionInstance_new(export_name, function_type, locals, type_idex, body) ==
  [export_name |-> export_name, function_type |-> function_type,
   locals |-> locals, type_idex |-> type_idex, body |-> body]

\* a FunctionInstance of the store: its function_type is the Ok of a decoded
\* FunctionType, its type index 0
FunctionInstance(export_name, parameters, returns, locals, body) ==
  FunctionInstance_new(export_name, Ok(FunctionType_new(parameters, returns)),
                       locals, 0, body)

\* Option<String> of an export name
Some(x) == <<x>>
NoName == <<>>

\* The function instances of the instantiated module, by function index
\* (index i of the store is Functions[i + 1]).
Functions ==
  << \* 0: scenario "sub": 100 - x
     FunctionInstance(Some("sub"), <<"I32">>, <<"I32">>, <<>>,
       <<I32Const(100), GetLocal(0), Op("I32Sub")>>),
     \* 1: scenario "d": signed division of the two parameters
     FunctionInstance(Some("div"), <<"I32", "I32">>, <<"I32">>, <<>>,
       <<GetLocal(0), GetLocal(1), Op("I32DivSign")>>),
     \* 2: 12 / x
     FunctionInstance(NoName, <<"I32">>, <<"I32">>, <<>>,
       <<I32Const(12), GetLocal(0), Op("I32DivSign")>>),
     \* 3: (12 / x) + 1, the division in a called function
     FunctionInstance(Some("call_inv"), <<"I32">>, <<"I32">>, <<>>,
       <<GetLocal(0), Call(2), I32Const(1), Op("I32Add")>>),
     \* 4: if x then 7 / y else 5
     FunctionInstance(Some("if_div"), <<"I32", "I32">>, <<"I32">>, <<>>,
       <<GetLocal(0),
         If("I32", <<I32Const(7), GetLocal(1), Op("I32DivSign")>>,
                   <<I32Const(5)>>)>>),
     \* 5: x / y through a call of function 1
     FunctionInstance(Some("call_div"), <<"I32", "I32">>, <<"I32">>, <<>>,
       <<GetLocal(0), GetLocal(1), Call(1)>>),
     \* 6: a declared local next to the parameter: x + local 1
     FunctionInstance(NoName, <<"I32">>, <<"I32">>, <<"I32">>,
       <<GetLocal(0), GetLocal(1), Op("I32Add")>>),
     \* 7: 40 + function 6 of x: a value of the caller below the argument
     FunctionInstance(Some("call_local"), <<"I32">>, <<"I32">>, <<>>,
       <<I32Const(40), GetLocal(0), Call(6), Op("I32Add")>>),
     \* 8: comparison of two i64 parameters
     FunctionInstance(Some("lt64"), <<"I64", "I64">>, <<"I32">>, <<>>,
       <<GetLocal(0), GetLocal(1), Op("I64LessThanSign")>>),
     \* 9: the constant 42, no parameter
     FunctionInstance(NoName, <<>>, <<"I32">>, <<>>, <<I32Const(42)>>),
     \* 10: a call of function 9
     FunctionInstance(Some("call_const"), <<>>, <<"I32">>, <<>>, <<Call(9)>>),
     \* 11: an explicit return
     FunctionInstance(Some("ret"), <<>>, <<"I32">>, <<>>,
       <<I32Const(7), Op("Return")>>),
     \* 12: unbounded recursion: the function calls itself with its parameter
     FunctionInstance(Some("rec"), <<"I32">>, <<"I32">>, <<>>,
       <<GetLocal(0), Call(12)>>) >>

\* Store::call: the function instance at an index, if there is one
Store_call(function_idx) ==
  IF function_idx < Len(Functions) THEN Functions[function_idx + 1] ELSE None

\* FunctionInstance::call: (body, locals)
FunctionInstance_call(f) == <<f.body, f.locals>>

\* FunctionInstance::get_arity: the number of parameters of an Ok
\* function_type (FunctionType::get_arity, parameters.len()), 0 for an Err
get_arity(self) ==
  IF self.function_type.ok THEN Len(self.function_type.val.parameters) ELSE 0

\* Store::get_function_idx: the index of the function exported under a name
get_function_idx(invoke) ==
  (CHOOSE i \in 1..Len(Functions) : Functions[i].export_name = Some(invoke)) - 1

\* Size of the linear memory in bytes
MemSize == MemPages * 65536

(***************************************************************************)
(* The interpreter (src/src/lib.rs).  Every operator takes the machine m   *)
(* and yields [m |-> the machine after, res |-> "Ok" or the Trap of Err].  *)
(* A panic is recorded in m.panic and ends the evaluation.                 *)
(***************************************************************************)
Done(m) == [m |-> m, res |-> "Ok"]
Raise(m, trap) == [m |-> Logged(m, <<"trap", trap>>), res |-> trap]

\* Methods of Values that lib.rs calls and the impl Values of
\* src/src/value.rs does not define (Values has no F32 and no F64 there): a
\* call of one of them is taken as unimplemented!().
MissingMethods ==
  {"div_f", "min", "max", "sqrt", "ceil", "floor", "trunc", "nearest"}

\* macro impl_unary_inst!
impl_unary_inst(m, method) ==
  LET push_value(popped, value) ==
        IF IsPanicked(value) THEN Done(Panic(popped.m, "unimplemented"))
        ELSE Done(push(popped.m, new_value(value)).m)
      apply(popped) ==
        push_value(popped, IF method \in MissingMethods THEN Panicked
                           ELSE IF method = "extend_to_i64"
                           THEN extend_to_i64(popped.v)
                           ELSE unary_inst(method, popped.v))
  IN  apply(pop_value(m))

\* macro impl_binary_inst!: the right operand is on top
impl_binary_inst(m, method) ==
  LET push_value(left, value) ==
        IF IsPanicked(value) THEN Done(Panic(left.m, "unimplemented"))
        ELSE Done(push(left.m, new_value(value)).m)
      apply(left, right) ==
        push_value(left, IF method \in MissingMethods THEN Panicked
                         ELSE bynary_inst(method, left.v, right.v))
      pop_left(right) == apply(pop_value(right.m), right)
  IN  pop_left(pop_value(m))

\* macro impl_try_binary_inst!
impl_try_binary_inst(m, method) ==
  LET push_value(left, value) ==
        IF value.ok
        THEN (IF IsPanicked(value.val) THEN Done(Panic(left.m, "unimplemented"))
              ELSE Done(push(left.m, new_value(value.val)).m))
        ELSE Raise(left.m, value.trap)
      apply(left, right) ==
        push_value(left, bynary_try_inst(method, left.v, right.v))
      pop_left(right) == apply(pop_value(right.m), right)
  IN  pop_left(pop_value(m))

\* Vm::call
call(m, function_idx, arguments) ==
  push(Logged(m, <<"call", function_idx, arguments>>),
       new_fram(Frame(arguments, m.stack_ptr, function_idx))).m

\* `for local in frame.locals { self.stack.push(..) }`
RECURSIVE push_locals(_, _, _)
push_locals(m, locals, i) ==
  IF i > Len(locals) THEN m
  ELSE push_locals(push(m, new_value(locals[i])).m, locals, i + 1)

\* The instructions whose arms stand before line 141 of lib.rs
BinaryInst ==
  {"I32Add", "I64Add", "F32Add", "I32Sub", "I64Sub", "F32Sub", "I32Mul",
   "I64Mul", "F32Mul", "F32Div", "F32Min", "F32Max"}
TryBinaryInst ==
  {"I32DivUnsign", "I64DivUnsign", "I32DivSign", "I64DivSign", "I32RemSign",
   "I64RemSign", "I32RemUnsign", "I64RemUnsign"}
UnaryInst == {"F32Sqrt", "F32Ceil", "F32Floor", "F32Trunc", "F32Nearest"}
\* The arms of lib.rs from line 141 on.  enum Inst of src/src/inst.rs declares
\* no DropInst, so the pattern `DropInst` of line 141 is no variant but a
\* binding: it matches every instruction that reaches it, and the arms written
\* after it (lines 144-239) are never taken.  These are the instructions of
\* those arms, by the number of operands they are meant to take.
CaughtBinaryInst ==
  {"LessThanSign", "I64LessThanSign", "LessThanUnsign", "I64LessThanUnSign",
   "I32LessEqualSign", "I64LessEqualSign", "I32LessEqualUnsign",
   "I64LessEqualUnSign", "I32GreaterEqualSign", "I64GreaterEqualSign",
   "I32GreaterThanSign", "I64GreaterThanSign", "I32GreaterThanUnsign",
   "I64GreaterThanUnSign", "I32GreaterEqualUnsign", "I64GreaterEqualUnSign",
   "Equal", "I64Equal", "NotEqual", "I64NotEqual", "I32Or", "I64Or", "I32Xor",
   "I64Xor", "I32And", "I64And", "I32ShiftLeft", "I64ShiftLeft",
   "I32ShiftRIghtSign", "I64ShiftRightSign", "I32ShiftRightUnsign",
   "I64ShiftRightUnsign", "I32RotateLeft", "I64RotateLeft", "I32RotateRight",
   "I64RotateRight"}
CaughtUnaryInst ==
  {"I64ExtendUnsignI32", "I32CountLeadingZero", "I64CountLeadingZero",
   "I32CountTrailingZero", "I64CountTrailingZero", "I32CountNonZero",
   "I64CountNonZero", "I32EqualZero", "I64EqualZero", "I32WrapI64"}
LoadInst ==
  {"I32Load8Unsign", "I32Load8Sign", "I32Load16Unsign", "I32Load16Sign",
   "I32Load", "I64Load8Unsign", "I64Load8Sign", "I64Load16Unsign",
   "I64Load16Sign", "I64Load32Sign", "I64Load32Unsign", "I64Load", "F32Load",
   "F64Load"}
StoreInst ==
  {"I32Store", "I64Store", "F32Store", "F64Store", "I32Store8", "I32Store16",
   "I64Store8", "I64Store16", "I64Store32"}

\* The arms of the match of evaluate_instructions that apply a method of
\* Values: the method an instruction names, as in
\* `I32Add | I64Add | F32Add => impl_binary_inst!(self, add)`.
binary_arm(o) ==
  CASE o \in {"I32Add", "I64Add", "F32Add"} -> "add"
    [] o \in {"I32Sub", "I64Sub", "F32Sub"} -> "sub"
    [] o \in {"I32Mul", "I64Mul", "F32Mul"} -> "mul"
    [] o = "F32Div" -> "div_f"
    [] o = "F32Min" -> "min"
    [] o = "F32Max" -> "max"

try_binary_arm(o) ==
  CASE o \in {"I32DivUnsign", "I64DivUnsign"} -> "div_u"
    [] o \in {"I32DivSign", "I64DivSign"} -> "div_s"
    [] o \in {"I32RemSign", "I64RemSign"} -> "rem_s"
    [] o \in {"I32RemUnsign", "I64RemUnsign"} -> "rem_u"

unary_arm(o) ==
  CASE o = "F32Sqrt" -> "sqrt"
    [] o = "F32Ceil" -> "ceil"
    [] o = "F32Floor" -> "floor"
    [] o = "F32Trunc" -> "trunc"
    [] o = "F32Nearest" -> "nearest"

RECURSIVE instruction(_, _)
RECURSIVE evaluate_instructions_from(_, _, _)
RECURSIVE evaluate(_)

\* The native stack around the call of Vm::evaluate in the arm of Call: the
\* call nests one deeper and aborts the process when no room is left; its
\* return frees the room.
nest(m) ==
  IF m.depth >= MaxDepth THEN Panic(m, StackExhausted)
  ELSE [m EXCEPT !.depth = @ + 1]
unnest(m) == IF m.panic # "" THEN m ELSE [m EXCEPT !.depth = @ - 1]

\* One iteration of the `for` loop of Vm::evaluate_instructions: the match on
\* the expression, which takes the first arm whose pattern matches.
instruction(m, e) ==
  CASE e.op = "GetLocal" ->
         LET value == get(m, e.idx + get_frame_ptr(m))
         IN  IF value = None THEN Raise(m, "UnexpectedEnd")
             ELSE Done(push(m, value).m)
    [] e.op = "SetLocal" ->
         LET p == pop(m)
         IN  IF p.e = None THEN Raise(p.m, "UnexpectedEnd")
             ELSE Done(set(p.m, e.idx + get_frame_ptr(p.m), p.e))
    [] e.op = "TeeLocal" ->
         LET p == pop(m)
         IN  IF p.e = None THEN Raise(p.m, "UnexpectedEnd")
             ELSE LET m1 == push(p.m, p.e).m
                  IN  Done(set(m1, e.idx + get_frame_ptr(m1), p.e))
    [] e.op = "Call" ->
         \* one operand, whatever the arity; `let _ =` drops the result
         LET operand == pop_value(m)
             m1 == call(operand.m, e.idx, <<operand.v>>)
         IN  IF operand.m.panic # "" THEN Done(operand.m)
             ELSE Done(unnest(evaluate(nest(m1)).m))
    [] e.op \in BinaryInst -> impl_binary_inst(m, binary_arm(e.op))
    [] e.op \in TryBinaryInst -> impl_try_binary_inst(m, try_binary_arm(e.op))
    [] e.op \in UnaryInst -> impl_unary_inst(m, unary_arm(e.op))
    [] e.op = "I32Const" -> Done(push(m, new_value(I32(e.n))).m)
    [] e.op = "I64Const" -> Done(push(m, new_value(I64(e.n))).m)
    [] e.op = "Select" ->
         LET cond == pop_value(m)
             false_br == pop_value(cond.m)
             true_br == pop_value(false_br.m)
             t == IF true_br.m.panic # "" THEN "panic" ELSE is_truthy(cond.v)
         IN  CASE t = "true" -> Done(push(true_br.m, new_value(true_br.v)).m)
               [] t = "false" -> Done(push(true_br.m, new_value(false_br.v)).m)
               [] OTHER -> Done(Panic(true_br.m, "unimplemented"))
    \* `DropInst => { self.stack.pop_value(); }` (line 141): a binding, since
    \* enum Inst declares no DropInst.  Every instruction left is matched here,
    \* and no arm written below this one is reached.
    [] OTHER -> Done(pop_value(m).m)

\* Vm::evaluate_instructions, from the i-th expression on: Err(trap) returns at
\* once, a panic unwinds.
evaluate_instructions_from(m, expressions, i) ==
  IF i > Len(expressions) THEN Done(m)
  ELSE LET next(r) ==
             IF r.m.panic # "" \/ r.res # "Ok" THEN r
             ELSE evaluate_instructions_from(r.m, expressions, i + 1)
       IN  next(instruction(Logged(m, <<"exec", expressions[i].op>>),
                            expressions[i]))

evaluate_instructions(m, expressions) ==
  evaluate_instructions_from(m, expressions, 1)

\* Vm::evaluate_frame
evaluate_frame(m, instructions) ==
  LET push_return(return_value) ==
        Done(push(update_frame_ptr(return_value.m),
                  new_value(return_value.v)).m)
      leave(r) ==
        IF r.m.panic # "" \/ r.res # "Ok" THEN r ELSE push_return(pop_value(r.m))
  IN  leave(evaluate_instructions(m, instructions))

\* Vm::evaluate: the `while !self.stack.is_empty` loop.  result is None until
\* the arm of Value breaks out of the loop, so leaving the loop through its
\* condition fails the expect() that follows it.
evaluate(m) ==
  IF m.panic # "" THEN Done(m)
  ELSE IF m.is_empty THEN Done(Panic(m, "Call stack may return with null value"))
  ELSE
    LET loop(r) == IF r.m.panic # "" \/ r.res # "Ok" THEN r ELSE evaluate(r.m)
        enter(m2, c) ==
          evaluate(push(increase(m2, Len(c[2])), new_label(c[1])).m)
        call_function(fn_instance) ==
          IF fn_instance = None THEN << <<>>, <<>> >>
          ELSE FunctionInstance_call(fn_instance)
        match(p) ==
          CASE p.e.kind = "Value" -> Done(push(p.m, p.e).m)
            [] p.e.kind = "Label" -> loop(evaluate_frame(p.m, p.e.expressions))
            [] p.e.kind = "Frame" ->
                 enter(push_locals(
                         [p.m EXCEPT !.frame_ptr = Append(@, p.e.frame.return_ptr)],
                         p.e.frame.locals, 1),
                       call_function(Store_call(p.e.frame.function_idx)))
            [] p.e.kind = "Empty" -> Done(Panic(p.m, "Invalid popping stack."))
            [] p.e.kind = "None" -> Done(Panic(p.m, "Invalid popping stack."))
    IN  match(pop(m))

\* what is left of a call that does not return: the panic that unwinds the
\* thread, or the abort of the process when the native stack is exhausted
Unwound(m) ==
  [kind |-> IF m.panic = StackExhausted THEN "abort" ELSE "panic"]

\* Vm::run: what the caller receives, and the machine the Vm keeps
run(m, invoke, arguments) ==
  LET start_idx == get_function_idx(invoke)
      returned(p) ==
        IF p.m.panic # "" THEN [m |-> p.m, out |-> Unwound(p.m)]
        ELSE [m |-> p.m,
              out |-> [kind |-> "value", ty |-> p.v.ty, bits |-> p.v.bits]]
      match(r) ==
        IF r.m.panic # "" THEN [m |-> r.m, out |-> Unwound(r.m)]
        ELSE IF r.res = "Ok" THEN returned(pop_value(r.m))
        ELSE [m |-> r.m,
              out |-> [kind |-> "trap", trap |-> r.res,
                       text |-> TrapString(r.res)]]
  IN  match(evaluate(call(m, start_idx, arguments)))

(***************************************************************************)
(* State.  vm is the stack of the Vm between two operations; last records  *)
(* the operation performed last with what it returned; nruns counts the    *)
(* runs made on the Vm; trapped tells that some run has returned a trap.   *)
(***************************************************************************)
VARIABLES vm, last, nruns, trapped
vars == <<vm, last, nruns, trapped>>

NoOperation == [kind |-> "none"]
Quiet(m) == [m EXCEPT !.log = <<>>]

(***************************************************************************)
(* Specification Spec: a Vm over Functions, and a sequence of run calls    *)
(***************************************************************************)
\* the well-typed argument vectors handed to run for a function
Arguments(f) ==
  LET ArgOf(t) == IF t = "I32" THEN {I32(FromInt(n, 32)) : n \in {0, 3}}
                  ELSE {I64(FromInt(n, 64)) : n \in {0, 1}}
      parameters == f.function_type.val.parameters
  IN  IF Len(parameters) = 0 THEN {<<>>}
      ELSE IF Len(parameters) = 1 THEN {<<a>> : a \in ArgOf(parameters[1])}
      ELSE {<<a, b>> : a \in ArgOf(parameters[1]), b \in ArgOf(parameters[2])}

\* What Byte::decode hands to Vm::new: the Store of the module, or the error
\* of a decoding that fails
Decodings == {Ok(Functions), Err("UnexpectedEnd")}

\* Vm::new: the Vm of a decoded module, or the error of the decoding
Vm_new(decoded) ==
  IF decoded.ok THEN Ok([store |-> decoded.val, stack |-> Stack_new(StackSize)])
  ELSE Err(decoded.trap)

\* the state after Vm::new: when it returns an error there is no Vm, vm keeps
\* the error and nothing can be run
Init ==
  /\ \E decoded \in Decodings :
        LET built(r) ==
              /\ vm = IF r.ok THEN r.val.stack ELSE r
              /\ last = [kind |-> "new", ok |-> r.ok]
        IN  built(Vm_new(decoded))
  /\ nruns = 0
  /\ trapped = FALSE

\* the functions the module exports
Exported == {i \in 1..Len(Functions) : Functions[i].export_name # NoName}

\* Vm::run on an exported function with well-typed arguments
Run(i, arguments) ==
  /\ nruns < MaxRuns
  /\ last.kind = "new" => last.ok
  /\ vm.panic = ""
  /\ LET f == Functions[i]
         r == run(vm, f.export_name[1], arguments)
     IN  /\ vm' = Quiet(r.m)
         /\ last' = [kind |-> "run", invoke |-> f.export_name[1],
                     arguments |-> arguments, out |-> r.out, log |-> r.m.log,
                     stack_ptr |-> vm.stack_ptr, after_trap |-> trapped]
         /\ trapped' = (trapped \/ r.out.kind = "trap")
  /\ nruns' = nruns + 1

Next == \E i \in Exported : \E arguments \in Arguments(Functions[i]) :
          Run(i, arguments)

Spec == Init /\ [][Next]_vars

(***************************************************************************)
(* Specification SpecInst: one instruction of evaluate_instructions on a   *)
(* stack that holds its operands                                           *)
(***************************************************************************)
\* operand patterns of width N: small values, shift counts around N, extremes
Operands(N) ==
  {FromInt(n, N) : n \in {0, 1, 2, -7, -1, N, N + 1}} \cup {IntMin(N), IntMax(N)}
\* addresses around the end of the memory and of the 32-bit range
Addresses ==
  {FromInt(n, 32) :
     n \in {0, 4, MemSize - 8, MemSize - 4, MemSize - 3, MemSize - 1, MemSize,
            -1, -4}}
\* static offsets of a load
Offsets == {FromInt(n, 32) : n \in {0, 1, 4, MemSize - 3, MemSize - 4, -1, -4}}

\* i64 operands around 2^31 and 2^32: the low and the high 32 bits
WideOperands ==
  {low \o high : low \in Operands(32),
                 high \in {Zero(32), One(32), AllOnes(32)}}

\* the instructions whose operands are i64
I64Inst ==
  {"I64Add", "I64Sub", "I64Mul", "I64DivSign", "I64DivUnsign", "I64RemSign",
   "I64RemUnsign", "I64And", "I64Or", "I64Xor", "I64ShiftLeft",
   "I64ShiftRightSign", "I64ShiftRightUnsign", "I64RotateLeft",
   "I64RotateRight", "I64LessThanSign", "I64LessThanUnSign",
   "I64LessEqualSign", "I64LessEqualUnSign", "I64GreaterEqualSign",
   "I64GreaterThanSign", "I64GreaterThanUnSign", "I64GreaterEqualUnSign",
   "I64Equal", "I64NotEqual", "I64CountLeadingZero", "I64CountTrailingZero",
   "I64CountNonZero", "I64EqualZero", "I32WrapI64"}
OperandType(o) == IF o \in I64Inst THEN "I64" ELSE "I32"
\* the instructions of f32, which reach the integer operands of the model
\* through the arms they share with the integer instructions
F32Inst ==
  {"F32Add", "F32Sub", "F32Mul", "F32Div", "F32Min", "F32Max", "F32Sqrt",
   "F32Ceil", "F32Floor", "F32Trunc", "F32Nearest"}

\* the stack of a frame that has pushed the operands of one instruction
InitInst ==
  /\ \/ \E N \in {32, 64} : \E a, b \in Operands(N) :
          LET v(x) == new_value([ty |-> IF N = 32 THEN "I32" ELSE "I64", bits |-> x])
          IN  vm = push(push(Stack_new(StackSize), v(a)).m, v(b)).m
     \/ \E a \in Addresses \cup Operands(32) :
          vm = push(Stack_new(StackSize), new_value(I32(a))).m
     \/ \E a \in Operands(64) \cup WideOperands :
          vm = push(Stack_new(StackSize), new_value(I64(a))).m
     \/ \E cond \in Operands(32) :
          vm = push(push(push(Stack_new(StackSize),
                              new_value(I32(FromInt(1, 32)))).m,
                         new_value(I32(FromInt(2, 32)))).m,
                    new_value(I32(cond))).m
  /\ last = NoOperation
  /\ nruns = 0
  /\ trapped = FALSE

\* evaluate_instructions on the single instruction e
Exec(e) ==
  LET r == evaluate_instructions(vm, <<e>>)
  IN  /\ vm' = Quiet(r.m)
      /\ last' = [kind |-> "inst", e |-> e,
                  operands |-> [i \in 1..vm.stack_ptr |-> vm.entries[i].v],
                  res |-> r.res, log |-> r.m.log]
      /\ UNCHANGED <<nruns, trapped>>

ExecBinary(o) ==
  /\ last = NoOperation
  /\ vm.stack_ptr = 2
  /\ (o \in F32Inst \/ vm.entries[2].v.ty = OperandType(o))
  /\ Exec(Op(o))

ExecUnary(o) ==
  /\ last = NoOperation
  /\ vm.stack_ptr = 1
  /\ (o \in F32Inst \/ vm.entries[1].v.ty = OperandType(o))
  /\ Exec(Op(o))

ExecLoad(o, offset) ==
  /\ last = NoOperation
  /\ vm.stack_ptr = 1
  /\ vm.entries[1].v.ty = "I32"
  /\ Exec(Load(o, 0, offset))

\* the stores, Return, TypeEmpty and the f32 instructions without operands of
\* their own type in the model, on a stack of one or two values
CaughtInst == StoreInst \cup {"Return", "TypeEmpty", "F32Abs", "F32Neg", "F32Copysign"}
ExecCaught(o) ==
  /\ last = NoOperation
  /\ vm.stack_ptr \in {1, 2}
  /\ Exec(Op(o))

\* evaluate_instructions on i32.wrap_i64 followed by i64.extend_i32_u
ExecWrapExtend ==
  /\ last = NoOperation
  /\ vm.stack_ptr = 1
  /\ vm.entries[1].v.ty = "I64"
  /\ LET r == evaluate_instructions(
                vm, <<Op("I32WrapI64"), Op("I64ExtendUnsignI32")>>)
     IN  /\ vm' = Quiet(r.m)
         /\ last' = [kind |-> "wrap_extend", operands |-> <<vm.entries[1].v>>,
                     res |-> r.res, log |-> r.m.log]
  /\ UNCHANGED <<nruns, trapped>>

\* Select on two values and the condition pushed last
ExecSelect ==
  /\ last = NoOperation
  /\ vm.stack_ptr = 3
  /\ Exec(Op("Select"))

\* If on the condition: the then-branch pushes 1, the else-branch 2
ExecIf ==
  /\ last = NoOperation
  /\ vm.stack_ptr = 1
  /\ vm.entries[1].v.ty = "I32"
  /\ Exec(If("I32", <<I32Const(1)>>, <<I32Const(2)>>))

NextInst ==
  \/ ExecSelect
  \/ ExecIf
  \/ \E o \in BinaryInst \cup TryBinaryInst \cup CaughtBinaryInst :
        ExecBinary(o)
  \/ \E o \in UnaryInst \cup CaughtUnaryInst : ExecUnary(o)
  \/ \E o \in CaughtInst : ExecCaught(o)
  \/ \E o \in LoadInst : \E offset \in Offsets : ExecLoad(o, offset)
  \/ ExecWrapExtend

SpecInst == InitInst /\ [][NextInst]_vars

(***************************************************************************)
(* Properties of single instructions, checked under SpecInst               *)
(***************************************************************************)
LastInst(S) == last.kind = "inst" /\ last.e.op \in S
\* the operands of the instruction performed last: Left was pushed first
Left == last.operands[1]
Right == last.operands[2]
\* the entry on top of the stack
Top == vm.entries[vm.stack_ptr]
MinusOne(N) == AllOnes(N)

\* C4: div_s, div_u, rem_s and rem_u of i32 and i64 with a zero divisor trap
\* with DivisionByZero whatever the dividend, and push no result: both operands
\* are gone and the stack holds nothing more.
C4_ZeroDivisorTraps ==
  (LastInst(TryBinaryInst) /\ Right.bits = Zero(Len(Right.bits))) =>
     /\ last.res = "DivisionByZero"
     /\ vm.panic = ""
     /\ vm.stack_ptr = 0

C4_Witness ==
  /\ LastInst({"I64RemUnsign"})
  /\ Left.bits = IntMin(64)
  /\ Right.bits = Zero(64)
  /\ last.res = "DivisionByZero"
  /\ vm.stack_ptr = 0

\* q is the quotient of a by b truncated toward zero: the rest a - q * b is
\* zero or has the sign of a, and is smaller than b in magnitude.
TruncatedQuotient(a, b, q) ==
  LET r == wrapping_sub(a, wrapping_mul(q, b))
  IN  /\ r = Zero(Len(a)) \/ IsNeg(r) = IsNeg(a)
      /\ ULt(Magnitude(r), Magnitude(b))

\* C5: div_s of the minimum integer by -1 traps with the kind IntegerOverflow;
\* every other div_s with a non-zero divisor returns the quotient truncated
\* toward zero.
C5_DivSignOverflow ==
  (LastInst({"I32DivSign", "I64DivSign"}) /\ Right.bits # Zero(Len(Right.bits)))
    => IF Left.bits = IntMin(Len(Left.bits)) /\ Right.bits = MinusOne(Len(Right.bits))
       THEN last.res = "IntegerOverflow" /\ vm.stack_ptr = 0
       ELSE /\ last.res = "Ok"
            /\ vm.stack_ptr = 1
            /\ Top.kind = "Value"
            /\ TruncatedQuotient(Left.bits, Right.bits, Top.v.bits)

\* C6: rem_s of the minimum integer by -1 is 0 and does not trap, for i32 and
\* i64; rem_s traps only when the divisor is 0 (and then with DivisionByZero).
C6_RemSign ==
  LastInst({"I32RemSign", "I64RemSign"}) =>
     /\ vm.panic = ""
     /\ (last.res # "Ok") <=> (Right.bits = Zero(Len(Right.bits)))
     /\ last.res \in {"Ok", "DivisionByZero"}
     /\ (Left.bits = IntMin(Len(Left.bits)) /\ Right.bits = MinusOne(Len(Right.bits)))
          => /\ last.res = "Ok"
             /\ vm.stack_ptr = 1
             /\ Top = new_value([ty |-> Left.ty, bits |-> Zero(Len(Left.bits))])

C6_Witness ==
  /\ LastInst({"I64RemSign"})
  /\ Left.bits = IntMin(64)
  /\ Right.bits = MinusOne(64)
  /\ last.res = "Ok"
  /\ Top = new_value(I64(Zero(64)))

(***************************************************************************)
(* Reference arithmetic on base-256 numerals (least significant digit      *)
(* first): the schoolbook sum, difference and product of two numerals of   *)
(* n digits, reduced modulo 256^n by dropping what leaves the n digits.    *)
(***************************************************************************)
Digits(a) ==
  [j \in 1..(Len(a) \div 8) |->
     a[8 * j - 7] + 2 * a[8 * j - 6] + 4 * a[8 * j - 5] + 8 * a[8 * j - 4]
     + 16 * a[8 * j - 3] + 32 * a[8 * j - 2] + 64 * a[8 * j - 1] + 128 * a[8 * j]]

RECURSIVE RefAdd(_, _, _, _)
RefAdd(x, y, j, carry) ==
  IF j > Len(x) THEN <<>>
  ELSE LET t == x[j] + y[j] + carry
       IN  <<t % 256>> \o RefAdd(x, y, j + 1, t \div 256)

RECURSIVE RefSub(_, _, _, _)
RefSub(x, y, j, borrow) ==
  IF j > Len(x) THEN <<>>
  ELSE LET t == x[j] - y[j] - borrow
       IN  <<(t + 256) % 256>> \o RefSub(x, y, j + 1, IF t < 0 THEN 1 ELSE 0)

RECURSIVE ColumnSum(_, _, _, _)
ColumnSum(x, y, k, i) ==
  IF i > k THEN 0 ELSE x[i] * y[k + 1 - i] + ColumnSum(x, y, k, i + 1)

RECURSIVE RefMul(_, _, _, _)
RefMul(x, y, k, carry) ==
  IF k > Len(x) THEN <<>>
  ELSE LET t == ColumnSum(x, y, k, 1) + carry
       IN  <<t % 256>> \o RefMul(x, y, k + 1, t \div 256)

RefResult(o, x, y) ==
  CASE o \in {"I32Add", "I64Add"} -> RefAdd(x, y, 1, 0)
    [] o \in {"I32Sub", "I64Sub"} -> RefSub(x, y, 1, 0)
    [] o \in {"I32Mul", "I64Mul"} -> RefMul(x, y, 1, 0)

\* C7: for every pair of operands, add, sub and mul on i32 (i64) push the
\* mathematical sum, difference and product reduced modulo 2^32 (2^64), of the
\* type of the operands, and never trap or abort.
C7_WrappingArithmetic ==
  LastInst({"I32Add", "I64Add", "I32Sub", "I64Sub", "I32Mul", "I64Mul"}) =>
     /\ last.res = "Ok"
     /\ vm.panic = ""
     /\ vm.stack_ptr = 1
     /\ Top.kind = "Value"
     /\ Top.v.ty = Left.ty
     /\ Digits(Top.v.bits) = RefResult(last.e.op, Digits(Left.bits), Digits(Right.bits))

\* the largest i64 plus 1 is the smallest i64
C7_Witness ==
  /\ LastInst({"I64Add"})
  /\ Left.bits = IntMax(64)
  /\ Right.bits = One(64)
  /\ last.res = "Ok"
  /\ Top = new_value(I64(IntMin(64)))

\* the value of a shift count modulo N, from the integer the count stands for
CountModN(k, N) ==
  IF k = IntMin(N) THEN 0
  ELSE IF k = IntMax(N) THEN N - 1
  ELSE (CHOOSE c \in (-8)..(N + 1) : FromInt(c, N) = k) % N

\* x shifted by c places, bit by bit
RefShift(o, x, c) ==
  LET N == Len(x)
  IN  CASE o \in {"I32ShiftLeft", "I64ShiftLeft"} ->
             [i \in 1..N |-> IF i - c >= 1 THEN x[i - c] ELSE 0]
        [] o \in {"I32ShiftRIghtSign", "I64ShiftRightSign"} ->
             [i \in 1..N |-> IF i + c <= N THEN x[i + c] ELSE x[N]]
        [] o \in {"I32ShiftRightUnsign", "I64ShiftRightUnsign"} ->
             [i \in 1..N |-> IF i + c <= N THEN x[i + c] ELSE 0]

\* C8: shl, shr_s and shr_u shift x by the count k modulo N (32 for i32, 64
\* for i64); shr_s fills with the sign bit of x and shr_u with zero.
C8_ShiftCountModulo ==
  LastInst({"I32ShiftLeft", "I64ShiftLeft", "I32ShiftRIghtSign",
            "I64ShiftRightSign", "I32ShiftRightUnsign", "I64ShiftRightUnsign"}) =>
     /\ last.res = "Ok"
     /\ vm.panic = ""
     /\ vm.stack_ptr = 1
     /\ Top = new_value([ty |-> Left.ty,
                         bits |-> RefShift(last.e.op, Left.bits,
                                           CountModN(Right.bits, Len(Left.bits)))])

\* bytes an instruction loads
LoadBytes(o) ==
  CASE o \in {"I32Load8Unsign", "I32Load8Sign", "I64Load8Unsign", "I64Load8Sign"} -> 1
    [] o \in {"I32Load16Unsign", "I32Load16Sign", "I64Load16Unsign",
              "I64Load16Sign"} -> 2
    [] o \in {"I32Load", "I64Load32Sign", "I64Load32Unsign", "F32Load"} -> 4
    [] o \in {"I64Load", "F64Load"} -> 8

\* i + offset + bytes > MemSize over the integers, i and offset read as
\* unsigned 32-bit numbers and handled as 16-bit halves so that no sum wraps
ExceedsMemory(i, offset, bytes) ==
  LET low == ToNat(SubSeq(i, 1, 16)) + ToNat(SubSeq(offset, 1, 16)) + bytes
      high == ToNat(SubSeq(i, 17, 32)) + ToNat(SubSeq(offset, 17, 32))
              + (low \div 65536)
  IN  high > MemPages \/ (high = MemPages /\ low % 65536 > 0)

\* C9: a load with popped address i and static offset traps with
\* MemoryAccessOutOfBounds exactly when i + offset + width/8, computed without
\* wrap-around, exceeds the size of the memory in bytes; otherwise it pushes
\* the loaded value in place of the address.
C9_LoadBounds ==
  LastInst(LoadInst) =>
     /\ vm.panic = ""
     /\ IF ExceedsMemory(Left.bits, last.e.offset, LoadBytes(last.e.op))
        THEN last.res = "MemoryAccessOutOfBounds" /\ vm.stack_ptr = 0
        ELSE last.res = "Ok" /\ vm.stack_ptr = 1 /\ Top.kind = "Value"

(***************************************************************************)
(* Properties of run, checked under Spec                                   *)
(***************************************************************************)
\* the function instance run was called on last
Invoked == Functions[get_function_idx(last.invoke) + 1]
\* a Vm right after Vm::new
Fresh == Vm_new(Ok(Functions)).val.stack

\* C1: when an instruction raises a trap during run, also inside the taken
\* branch of an If or inside a called function, run returns that trap and no
\* instruction is executed after the trapping one: a trap in the log of a run
\* is its last entry and is what the run returned.
C1_TrapEndsRun ==
  last.kind = "run" =>
     \A k \in 1..Len(last.log) :
        last.log[k][1] = "trap" =>
           /\ k = Len(last.log)
           /\ last.out.kind = "trap"
           /\ last.out.trap = last.log[k][2]

\* C2: run on an exported function with well-typed arguments returns one
\* value of the declared result type or a trap, and after a value is returned
\* no entry of the finished call is left on the stack.
C2_OneTypedResult ==
  last.kind = "run" =>
     \/ last.out.kind = "trap"
     \/ /\ last.out.kind = "value"
        /\ <<last.out.ty>> = Invoked.function_type.val.returns
        /\ vm.stack_ptr = last.stack_ptr

\* C3: a run that follows a trapped run on the same Vm returns what the same
\* run returns on a fresh Vm.
C3_SameAsFresh ==
  (last.kind = "run" /\ last.after_trap) =>
     last.out = run(Fresh, last.invoke, last.arguments).out

\* C10: every Call hands the called function as many arguments as it has
\* parameters.
C10_CallArity ==
  last.kind = "run" =>
     \A k \in 1..Len(last.log) :
        last.log[k][1] = "call" =>
           Len(last.log[k][3]) = get_arity(Functions[last.log[k][2] + 1])

\* C11: the stack never holds more than its capacity, no run aborts the
\* host, and a run in which a push met the full stack returns the trap
\* StackOverflow.
C11_StackOverflow ==
  last.kind = "run" =>
     /\ vm.stack_ptr <= StackSize
     /\ last.out.kind # "abort"
     /\ (\E k \in 1..Len(last.log) : last.log[k][1] = "overflow") =>
           /\ last.out.kind = "trap"
           /\ last.out.trap = "StackOverflow"

(***************************************************************************)
(* src/src/decode/context.rs: the Context that builds the Store from the   *)
(* decoded instances.  In the specification SpecBuild the variable vm      *)
(* holds that Context and last the method called on it with its result.    *)
(***************************************************************************)
I64Const(n) == [op |-> "I64Const", n |-> FromInt(n, 64)]

\* what a call leaves when unimplemented!() unwinds it
Unimplemented == [ok |-> FALSE, trap |-> "panic: not yet implemented"]

\* decode::Context::new (the memory, table and global instances are empty)
decode_Context_new(function_instances) ==
  [function_instances |-> function_instances]

\* Store::new as decode::Context calls it
Store_new(function_instances) ==
  [kind |-> "Store", function_instances |-> function_instances]

\* decode::Context::without_validate: the Store, whatever the bodies are
without_validate(self) == Ok(Store_new(self.function_instances))

\* decode::Context::reduction_instructions_internal: every path through the
\* loop and the statement after it is unimplemented!()
reduction_instructions_internal(instructions, locals) == Unimplemented

\* decode::Context::reduction_instructions
reduction_instructions(self, function_instance, function_type) ==
  LET wrap(return_type) ==
        IF return_type.ok THEN Ok(<<return_type.val>>) ELSE return_type
  IN  wrap(reduction_instructions_internal(
             function_instance.body,
             function_type.parameters \o function_instance.locals))

\* decode::Context::validate, from the i-th function instance on: collect()
\* stops at the first Err, and a panic unwinds
RECURSIVE decode_validate_from(_, _)
decode_validate_from(self, i) ==
  IF i > Len(self.function_instances)
  THEN Ok(Store_new(self.function_instances))
  ELSE LET function_instance == self.function_instances[i]
           compare(expect_return_type, actual_return_type) ==
             IF ~actual_return_type.ok THEN actual_return_type
             ELSE IF expect_return_type # actual_return_type.val
             THEN Err("TypeMismatch")
             ELSE decode_validate_from(self, i + 1)
           check(function_type) ==
             IF ~function_type.ok THEN function_type
             ELSE compare(function_type.val.returns,
                          reduction_instructions(self, function_instance,
                                                 function_type.val))
       IN  check(function_instance.function_type)

decode_validate(self) == decode_validate_from(self, 1)

(***************************************************************************)
(* Specification SpecBuild: a decode::Context over one or two decoded      *)
(* function instances, consumed by one of its two methods                  *)
(***************************************************************************)
\* the decoded function instances: a type or the error of its decoding, and
\* a body that leaves one constant
DecodedFunctions ==
  {FunctionInstance_new(NoName, function_type, <<>>, 0, body) :
     function_type \in {Ok(FunctionType_new(<<>>, <<"I32">>)),
                        Ok(FunctionType_new(<<>>, <<"I64">>)),
                        Ok(FunctionType_new(<<"I32">>, <<"I32">>)),
                        Err("UnexpectedEnd")},
     body \in {<<I32Const(0), Op("End")>>, <<I64Const(0), Op("End")>>}}

InitBuild ==
  /\ vm \in {decode_Context_new(fs) :
               fs \in {<<f>> : f \in DecodedFunctions}
                      \cup {<<f, g>> : f, g \in DecodedFunctions}}
  /\ last = NoOperation
  /\ nruns = 0
  /\ trapped = FALSE

\* `self` is moved into the method: one call per Context
WithoutValidate ==
  /\ last = NoOperation
  /\ last' = [kind |-> "without_validate", result |-> without_validate(vm)]
  /\ UNCHANGED <<vm, nruns, trapped>>

Validate ==
  /\ last = NoOperation
  /\ last' = [kind |-> "validate", result |-> decode_validate(vm)]
  /\ UNCHANGED <<vm, nruns, trapped>>

NextBuild == WithoutValidate \/ Validate
SpecBuild == InitBuild /\ [][NextBuild]_vars

\* the result type a body of DecodedFunctions computes: the type of the
\* constant it leaves
ComputedResult(body) == IF body[1].op = "I32Const" THEN <<"I32">> ELSE <<"I64">>
\* some function instance of the Context has a body whose computed result
\* type differs from the declared one
Mismatching(cx) ==
  \E i \in 1..Len(cx.function_instances) :
     /\ cx.function_instances[i].function_type.ok
     /\ cx.function_instances[i].function_type.val.returns
          # ComputedResult(cx.function_instances[i].body)

\* C12: building the Store from decoded instances fails whenever a function
\* body's computed result type differs from its declared result type: no
\* method of the Context returns a Store for such instances.
C12_RejectedNotBuilt ==
  (last.kind \in {"without_validate", "validate"} /\ Mismatching(vm)) =>
     ~last.result.ok

(***************************************************************************)
(* src/src/validate/context.rs: the validator.  A value type is one of the *)
(* strings "I32", "I64", "F32", "F64", "Empty"; an entry of a TypeStack is *)
(* a value type or "Label", and a type stack is a sequence with its top    *)
(* last.  The Cell and RefCell fields of Function and Context are plain    *)
(* fields, and a method that writes them returns the Context it leaves     *)
(* together with its result.  The field overflow_checks of the Context is  *)
(* the build profile: whether integer overflow panics or wraps.            *)
(***************************************************************************)
\* TypeStack::pop_type
pop_type(stack) ==
  IF Len(stack) = 0 THEN [stack |-> stack, res |-> Err("TypeMismatch")]
  ELSE [stack |-> SubSeq(stack, 1, Len(stack) - 1),
        res |-> IF stack[Len(stack)] = "Label" THEN Err("TypeMismatch")
                ELSE Ok(stack[Len(stack)])]

\* TypeStack::pop_until_label: the entry that ends the loop is popped too
RECURSIVE pop_until_label(_)
pop_until_label(stack) ==
  IF Len(stack) = 0 THEN stack
  ELSE IF stack[Len(stack)] = "Label" THEN SubSeq(stack, 1, Len(stack) - 1)
  ELSE pop_until_label(SubSeq(stack, 1, Len(stack) - 1))

\* TypeStack::pop_i32
pop_i32(stack) ==
  IF Len(stack) = 0 THEN [stack |-> stack, res |-> Err("TypeMismatch")]
  ELSE [stack |-> SubSeq(stack, 1, Len(stack) - 1),
        res |-> IF stack[Len(stack)] = "I32" THEN Ok("I32")
                ELSE Err("TypeMismatch")]

\* Function::new
Function_new(function_type, locals, body) ==
  [function_type |-> function_type, locals |-> locals, body |-> body,
   body_ptr |-> 0, type_stack |-> <<>>]

\* Function::pop on the f-th function: body_ptr moves on even at the end of
\* the body; the instruction is <<inst>>, or <<>> for None
Function_pop(self, f) ==
  LET ptr == self.functions[f].body_ptr
  IN  [cx |-> [self EXCEPT !.functions[f].body_ptr = ptr + 1],
       inst |-> IF ptr < Len(self.functions[f].body)
                THEN <<self.functions[f].body[ptr + 1]>> ELSE <<>>]

\* Function::pop_value_type
pop_value_type(self, f) ==
  LET value_type(p) ==
        [cx |-> p.cx,
         ty |-> IF Len(p.inst) = 1 /\ p.inst[1].op = "RuntimeValue"
                THEN <<p.inst[1].ty>> ELSE <<>>]
  IN  value_type(Function_pop(self, f))

\* bin_op!
bin_op(stack) ==
  LET compare(l, r) ==
        IF ~r.res.ok THEN r
        ELSE IF l # r.res.val
        THEN [stack |-> r.stack, res |-> Err("TypeMismatch")]
        ELSE [stack |-> Append(r.stack, l), res |-> Ok(<<>>)]
      right(l) == IF ~l.res.ok THEN l ELSE compare(l.res.val, pop_type(l.stack))
  IN  right(pop_type(stack))

\* test_op!
test_op(stack) ==
  LET push_i32(p) ==
        IF ~p.res.ok THEN p
        ELSE [stack |-> Append(p.stack, "I32"), res |-> Ok(<<>>)]
  IN  push_i32(pop_type(stack))

\* rel_op!
rel_op(stack) ==
  LET compare(l, r) ==
        IF ~r.res.ok THEN r
        ELSE IF l # r.res.val
        THEN [stack |-> r.stack, res |-> Err("TypeMismatch")]
        ELSE [stack |-> Append(r.stack, "I32"), res |-> Ok(<<>>)]
      right(l) == IF ~l.res.ok THEN l ELSE compare(l.res.val, pop_type(l.stack))
  IN  right(pop_type(stack))

\* validate::Context::new.  Entry idx of module.codes is entry idx + 1 here;
\* a `?` on a missing index is the conversion of NoneError.
validate_Context_new(module, overflow_checks) ==
  LET function(i) ==
        IF i > Len(module.functions) THEN Err("NoneError")
        ELSE IF module.functions[i] >= Len(module.function_types)
        THEN Err("NoneError")
        ELSE IF ~module.codes[i].ok
        THEN [ok |-> FALSE, trap |-> "Trap", err |-> module.codes[i].trap]
        ELSE Ok(Function_new(module.function_types[module.functions[i] + 1],
                             module.codes[i].val.locals,
                             module.codes[i].val.body))
      failed == {i \in 1..Len(module.codes) : ~function(i).ok}
  IN  IF failed # {}
      THEN function(CHOOSE i \in failed : \A j \in failed : i <= j)
      ELSE Ok([function_types |-> module.function_types,
               functions |-> [i \in 1..Len(module.codes) |-> function(i).val],
               limits |-> module.limits,
               tables |-> module.tables,
               globals |-> module.globals,
               elements |-> module.elements,
               locals |-> <<>>,
               labels |-> <<>>,
               return_type |-> <<"Empty">>,
               overflow_checks |-> overflow_checks])

\* validate::Context::validate_constant.  A global is a pair of its
\* GlobalType, [kind |-> "Const" or "Var", ty |-> the value type], and its
\* initialiser.
validate_constant(self, expr) ==
  LET second(type_stack) ==
        IF Len(expr) >= 2 /\ expr[2].op = "End"
        THEN pop_type(type_stack).res
        ELSE Err("ConstantExpressionRequired")
      const == IF Len(expr) >= 1 THEN expr[1].op ELSE "None"
  IN  CASE const = "I32Const" -> second(<<"I32">>)
        [] const = "I64Const" -> second(<<"I64">>)
        [] const = "F32Const" -> second(<<"F32">>)
        [] const = "F64Const" -> second(<<"F64">>)
        [] const = "GetGlobal" ->
             IF expr[1].idx < Len(self.globals)
             THEN second(<<self.globals[expr[1].idx + 1][1].ty>>)
             ELSE Err("TypeMismatch")
        [] OTHER -> Err("ConstantExpressionRequired")

\* validate::Context::validate_elements
validate_elements(self) ==
  LET element(i) ==
        LET e == self.elements[i]
            typed(offset) ==
              IF ~offset.ok THEN offset
              ELSE IF offset.val # "I32" THEN Err("TypeMismatch")
              ELSE IF \E k \in 1..Len(e.init) :
                         e.init[k] >= Len(self.functions)
              THEN Err("TypeMismatch")
              ELSE Ok(<<>>)
        IN  IF e.table_idx >= Len(self.tables)
            THEN [ok |-> FALSE, trap |-> "UnknownTable", idx |-> e.table_idx]
            ELSE typed(validate_constant(self, e.offset))
      failed == {i \in 1..Len(self.elements) : ~element(i).ok}
  IN  IF failed # {}
      THEN element(CHOOSE i \in failed : \A j \in failed : i <= j)
      ELSE Ok(<<>>)

\* validate::Context::validate_function_types
validate_function_types(self) ==
  IF \E i \in 1..Len(self.function_types) :
        Len(self.function_types[i].returns) > 1
  THEN Err("InvalidResultArity")
  ELSE Ok(<<>>)

\* 2u32.pow(exp): the product overflows from exp = 32 on, which panics in a
\* build with overflow checks and wraps to 0 in one without
u32_pow2(exp, overflow_checks) ==
  IF exp < 32 THEN Ok(2 ^ exp)
  ELSE IF overflow_checks
  THEN [ok |-> FALSE, trap |-> "panic: attempt to multiply with overflow"]
  ELSE Ok(0)

\* validate::Context::validate_load
validate_load(self, cxt, align, bit_width, ty) ==
  LET push_ty(p) ==
        IF ~p.res.ok THEN p
        ELSE [stack |-> Append(p.stack, ty), res |-> Ok(<<>>)]
      aligned(pow) ==
        IF ~pow.ok THEN [stack |-> cxt, res |-> pow]
        ELSE IF pow.val > bit_width \div 8
        THEN [stack |-> cxt, res |-> Err("InvalidAlignment")]
        ELSE push_ty(pop_i32(cxt))
  IN  IF Len(self.limits) = 0
      THEN [stack |-> cxt, res |-> Err("TypeMismatch")]
      ELSE aligned(u32_pow2(align, self.overflow_checks))

\* validate::Context::validate_store
validate_store(self, cxt, align, bit_width) ==
  LET popped(p) ==
        IF ~p.res.ok THEN p ELSE [stack |-> p.stack, res |-> Ok(<<>>)]
      aligned(pow) ==
        IF ~pow.ok THEN [stack |-> cxt, res |-> pow]
        ELSE IF pow.val > bit_width \div 8
        THEN [stack |-> cxt, res |-> Err("InvalidAlignment")]
        ELSE popped(pop_i32(cxt))
  IN  IF Len(self.limits) = 0
      THEN [stack |-> cxt, res |-> Err("TypeMismatch")]
      ELSE aligned(u32_pow2(align, self.overflow_checks))

\* validate::Context::validate_unary
validate_unary(self, cxt) ==
  LET push_back(t) ==
        IF ~t.res.ok THEN t
        ELSE [stack |-> Append(t.stack, t.res.val), res |-> Ok(<<>>)]
  IN  push_back(pop_type(cxt))

\* validate::Context::validate_convert
validate_convert(self, cxt, from, to) ==
  LET convert(from_ty) ==
        IF ~from_ty.res.ok THEN from_ty
        ELSE IF from_ty.res.val # from
        THEN [stack |-> from_ty.stack, res |-> Err("TypeMismatch")]
        ELSE [stack |-> Append(from_ty.stack, to), res |-> Ok(<<>>)]
  IN  convert(pop_type(cxt))

\* The match of validate::Context::validate_function on one instruction of
\* the f-th function, which Function::pop has already taken from the body.
validate_inst(self, f, inst) ==
  LET cxt == self.functions[f].type_stack
      labels == self.labels
      o == inst.op
      leave(cx, stack, labs, res) ==
        [cx |-> [cx EXCEPT !.functions[f].type_stack = stack,
                           !.labels = labs],
         res |-> res]
      stacked(p) == leave(self, p.stack, labels, p.res)
      \* Block, Loop and the tail of If: the label the next instruction names
      enter(stack, p) ==
        IF Len(p.ty) = 0 THEN leave(p.cx, stack, labels, Err("NoneError"))
        ELSE leave(p.cx, Append(stack, "Label"), <<p.ty[1]>> \o labels,
                   Ok(<<>>))
      enter_if(cond) ==
        IF ~cond.res.ok THEN stacked(cond)
        ELSE enter(cond.stack, pop_value_type(self, f))
      else_arm(expect, actual) ==
        IF ~actual.res.ok
        THEN leave(self, actual.stack, Tail(labels), actual.res)
        ELSE IF expect # actual.res.val
        THEN leave(self, actual.stack, Tail(labels), Err("TypeMismatch"))
        ELSE leave(self, pop_until_label(actual.stack),
                   <<expect>> \o Tail(labels), Ok(<<>>))
      end_arm(expect) ==
        IF Len(cxt) > 0 /\ cxt[Len(cxt)] # "Label"
        THEN IF expect # cxt[Len(cxt)]
             THEN leave(self, SubSeq(cxt, 1, Len(cxt) - 1), Tail(labels),
                        Err("TypeMismatch"))
             ELSE leave(self, pop_until_label(SubSeq(cxt, 1, Len(cxt) - 1)),
                        Tail(labels), Ok(<<>>))
        ELSE leave(self, SubSeq(cxt, 1, Len(cxt) - 1), Tail(labels),
                   IF expect # "Empty" THEN Err("TypeMismatch") ELSE Ok(<<>>))
      \* the comparison that ends Br and Return
      expected(expect, actual) ==
        IF ~actual.res.ok THEN stacked(actual)
        ELSE leave(self, actual.stack, labels,
                   IF expect # actual.res.val THEN Err("TypeMismatch")
                   ELSE Ok(<<>>))
      \* the tail of BrIf and BrTable: pop_type, pop_i32, then the comparison
      condition(expect, actual, cond) ==
        IF ~cond.res.ok THEN stacked(cond)
        ELSE leave(self, cond.stack, labels,
                   IF expect # actual THEN Err("TypeMismatch") ELSE Ok(<<>>))
      conditional(expect, actual) ==
        IF ~actual.res.ok THEN stacked(actual)
        ELSE condition(expect, actual.res.val, pop_i32(actual.stack))
      br_table(expect) ==
        IF \E k \in 1..Len(inst.indices) :
              /\ \A j \in 1..(k - 1) :
                    /\ inst.indices[j] < Len(labels)
                    /\ labels[inst.indices[j] + 1] = expect
              /\ inst.indices[k] >= Len(labels)
        THEN leave(self, cxt, labels, Err("UnknownLabel"))
        ELSE IF \E k \in 1..Len(inst.indices) :
                   labels[inst.indices[k] + 1] # expect
        THEN leave(self, cxt, labels, Err("TypeMismatch"))
        ELSE conditional(expect, pop_type(cxt))
      set_local(expect) ==
        IF ~expect.res.ok THEN stacked(expect)
        ELSE leave(self, expect.stack, labels,
                   IF inst.idx >= Len(self.locals) THEN Err("TypeMismatch")
                   ELSE IF expect.res.val # self.locals[inst.idx + 1]
                   THEN Err("TypeMismatch")
                   ELSE Ok(<<>>))
      memory_grow(p) ==
        IF ~p.res.ok THEN stacked(p)
        ELSE leave(self, Append(p.stack, "I32"), labels, Ok(<<>>))
      select_operand(p) ==
        IF ~p.res.ok THEN stacked(p)
        ELSE leave(self, Append(p.stack, p.res.val), labels, Ok(<<>>))
      select_second(p) ==
        IF ~p.res.ok THEN stacked(p) ELSE select_operand(pop_type(p.stack))
      select_first(p) ==
        IF ~p.res.ok THEN stacked(p) ELSE select_second(pop_type(p.stack))
      drop(p) ==
        leave(self, p.stack, labels, IF p.res.ok THEN Ok(<<>>) ELSE p.res)
      load_width ==
        CASE o \in {"I32Load", "F32Load", "I64Load32Sign", "I64Load32Unsign"}
               -> 32
          [] o \in {"I64Load", "F64Load"} -> 64
          [] o \in {"I32Load8Sign", "I32Load8Unsign", "I64Load8Sign",
                    "I64Load8Unsign"} -> 8
          [] OTHER -> 16
      load_ty ==
        CASE o = "F32Load" -> "F32"
          [] o = "F64Load" -> "F64"
          [] o \in {"I32Load", "I32Load8Sign", "I32Load8Unsign",
                    "I32Load16Sign", "I32Load16Unsign"} -> "I32"
          [] OTHER -> "I64"
      store_width ==
        CASE o \in {"I32Store", "F32Store", "I64Store32"} -> 32
          [] o \in {"I64Store", "F64Store"} -> 64
          [] o \in {"I32Store8", "I64Store8"} -> 8
          [] OTHER -> 16
      convert ==
        CASE o = "I32WrapI64" -> <<"I64", "I32">>
          [] o \in {"I32TruncSignF32", "I32TruncUnsignF32",
                    "I32ReinterpretF32"} -> <<"F32", "I32">>
          [] o \in {"I32TruncSignF64", "I32TruncUnsignF64"} -> <<"F64", "I32">>
          [] o \in {"I64ExtendSignI32", "I64ExtendUnsignI32"}
               -> <<"I32", "I64">>
          [] o \in {"I64TruncSignF32", "I64TruncUnsignF32"} -> <<"F32", "I64">>
          [] o \in {"I64TruncSignF64", "I64TruncUnsignF64",
                    "I64ReinterpretF64"} -> <<"F64", "I64">>
          [] o \in {"F32ConvertSignI32", "F32ConvertUnsignI32",
                    "F32ReinterpretI32"} -> <<"I32", "F32">>
          [] o \in {"F32ConvertSignI64", "F32ConvertUnsignI64"}
               -> <<"I64", "F32">>
          [] o = "F32DemoteF64" -> <<"F64", "F32">>
          [] o \in {"F64ConvertSignI32", "F64ConvertUnsignI32"}
               -> <<"I32", "F64">>
          [] o \in {"F64ConvertSignI64", "F64ConvertUnsignI64",
                    "F64ReinterpretI64"} -> <<"I64", "F64">>
          [] OTHER -> <<"F32", "F64">>
  IN  CASE o \in {"Unreachable", "Nop"} -> leave(self, cxt, labels, Ok(<<>>))
        [] o \in {"Block", "Loop"} -> enter(cxt, pop_value_type(self, f))
        [] o = "If" -> enter_if(pop_i32(cxt))
        [] o = "Else" ->
             IF Len(labels) = 0
             THEN leave(self, cxt, labels, Err("TypeMismatch"))
             ELSE else_arm(labels[1], pop_type(cxt))
        [] o = "End" ->
             IF Len(labels) = 0
             THEN leave(self, cxt, labels, Err("TypeMismatch"))
             ELSE end_arm(labels[1])
        [] o = "Br" ->
             IF inst.idx >= Len(labels)
             THEN leave(self, cxt, labels, Err("UnknownLabel"))
             ELSE expected(labels[inst.idx + 1], pop_type(cxt))
        [] o = "BrIf" ->
             IF inst.idx >= Len(labels)
             THEN leave(self, cxt, labels, Err("UnknownLabel"))
             ELSE conditional(labels[inst.idx + 1], pop_type(cxt))
        [] o = "BrTable" ->
             IF inst.idx >= Len(labels)
             THEN leave(self, cxt, labels, Err("UnknownLabel"))
             ELSE br_table(labels[inst.idx + 1])
        [] o = "Return" -> expected(self.return_type[1], pop_type(cxt))
        [] o \in {"Call", "CallIndirect", "TeeLocal", "GetGlobal",
                  "SetGlobal", "RuntimeValue"} ->
             leave(self, cxt, labels, Unimplemented)
        [] o = "I32Const" -> leave(self, Append(cxt, "I32"), labels, Ok(<<>>))
        [] o = "I64Const" -> leave(self, Append(cxt, "I64"), labels, Ok(<<>>))
        [] o = "F32Const" -> leave(self, Append(cxt, "F32"), labels, Ok(<<>>))
        [] o = "F64Const" -> leave(self, Append(cxt, "F64"), labels, Ok(<<>>))
        [] o = "GetLocal" ->
             IF inst.idx >= Len(self.locals)
             THEN leave(self, cxt, labels, Err("TypeMismatch"))
             ELSE leave(self, Append(cxt, self.locals[inst.idx + 1]), labels,
                        Ok(<<>>))
        [] o = "SetLocal" -> set_local(pop_type(cxt))
        [] o \in {"I32Load", "I64Load", "F32Load", "F64Load", "I32Load8Sign",
                  "I32Load8Unsign", "I32Load16Sign", "I32Load16Unsign",
                  "I64Load8Sign", "I64Load8Unsign", "I64Load16Sign",
                  "I64Load16Unsign", "I64Load32Sign", "I64Load32Unsign"} ->
             stacked(validate_load(self, cxt, inst.align, load_width, load_ty))
        [] o \in StoreInst ->
             stacked(validate_store(self, cxt, inst.align, store_width))
        [] o = "MemorySize" ->
             IF Len(self.limits) = 0
             THEN leave(self, cxt, labels, Err("TypeMismatch"))
             ELSE leave(self, Append(cxt, "I32"), labels, Ok(<<>>))
        [] o = "MemoryGrow" ->
             IF Len(self.limits) = 0
             THEN leave(self, cxt, labels, Err("TypeMismatch"))
             ELSE memory_grow(pop_i32(cxt))
        [] o \in {"I32CountLeadingZero", "I32CountTrailingZero",
                  "I32CountNonZero", "I64CountLeadingZero",
                  "I64CountTrailingZero", "I64CountNonZero", "F32Abs",
                  "F32Neg", "F32Ceil", "F32Floor", "F32Trunc", "F32Nearest",
                  "F32Sqrt", "F64Abs", "F64Neg", "F64Ceil", "F64Floor",
                  "F64Trunc", "F64Nearest", "F64Sqrt"} ->
             stacked(validate_unary(self, cxt))
        [] o \in {"I32Add", "I32Sub", "I32Mul", "I32DivSign", "I32DivUnsign",
                  "I32RemSign", "I32RemUnsign", "I32And", "I32Or", "I32Xor",
                  "I32ShiftLeft", "I32ShiftRIghtSign", "I32ShiftRightUnsign",
                  "I32RotateLeft", "I32RotateRight", "I64Add", "I64Sub",
                  "I64Mul", "I64DivSign", "I64DivUnsign", "I64RemSign",
                  "I64RemUnsign", "I64And", "I64Or", "I64Xor", "I64ShiftLeft",
                  "I64ShiftRightSign", "I64ShiftRightUnsign", "I64RotateLeft",
                  "I64RotateRight", "F32Add", "F32Sub", "F32Mul", "F32Div",
                  "F32Min", "F32Max", "F32Copysign", "F64Add", "F64Sub",
                  "F64Mul", "F64Div", "F64Min", "F64Max", "F64Copysign"} ->
             stacked(bin_op(cxt))
        [] o \in {"I32EqualZero", "I64EqualZero"} -> stacked(test_op(cxt))
        [] o \in {"Equal", "NotEqual", "LessThanSign", "LessThanUnsign",
                  "I32GreaterThanSign", "I32GreaterThanUnsign",
                  "I32LessEqualSign", "I32LessEqualUnsign",
                  "I32GreaterEqualSign", "I32GreaterEqualUnsign", "I64Equal",
                  "I64NotEqual", "I64LessThanSign", "I64LessThanUnSign",
                  "I64GreaterThanSign", "I64GreaterThanUnSign",
                  "I64LessEqualSign", "I64LessEqualUnSign",
                  "I64GreaterEqualSign", "I64GreaterEqualUnSign", "F32Equal",
                  "F32NotEqual", "F32LessThan", "F32GreaterThan",
                  "F32LessEqual", "F32GreaterEqual", "F64Equal", "F64NotEqual",
                  "F64LessThan", "F64GreaterThan", "F64LessEqual",
                  "F64GreaterEqual"} ->
             stacked(rel_op(cxt))
        [] o = "Select" -> select_first(pop_type(cxt))
        [] o = "DropInst" -> drop(pop_type(cxt))
        [] OTHER -> stacked(validate_convert(self, cxt, convert[1], convert[2]))

\* The `while let Some(inst) = function.pop()` loop of validate_function
RECURSIVE validate_function_loop(_, _)
validate_function_loop(self, f) ==
  LET next(r) == IF r.res.ok THEN validate_function_loop(r.cx, f) ELSE r
      match(p) ==
        IF Len(p.inst) = 0 THEN [cx |-> p.cx, res |-> Ok(<<>>)]
        ELSE next(validate_inst(p.cx, f, p.inst[1]))
  IN  match(Function_pop(self, f))

\* validate::Context::validate_function on the f-th function: the label of
\* the declared result goes to the front of labels, then the loop runs
validate_function(self, f) ==
  validate_function_loop(
    [self EXCEPT !.labels =
       <<IF Len(self.functions[f].function_type.returns) > 0
         THEN self.functions[f].function_type.returns[1]
         ELSE "Empty">> \o @],
    f)

\* validate::Context::validate_functions, from the f-th function on
RECURSIVE validate_functions_from(_, _)
validate_functions_from(self, f) ==
  LET next(r) == IF r.res.ok THEN validate_functions_from(r.cx, f + 1) ELSE r
  IN  IF f > Len(self.functions) THEN [cx |-> self, res |-> Ok(<<>>)]
      ELSE next(validate_function(self, f))

validate_functions(self) == validate_functions_from(self, 1)

\* validate::Context::validate
validate(self) ==
  LET function_types(r) ==
        IF ~r.ok THEN [cx |-> self, res |-> r] ELSE validate_functions(self)
      elements(r) ==
        IF ~r.ok THEN [cx |-> self, res |-> r]
        ELSE function_types(validate_function_types(self))
  IN  elements(validate_elements(self))

(***************************************************************************)
(* Specification SpecValidate: a validate::Context built from one decoded  *)
(* module; validate_constant is applied to an expression, and validate is  *)
(* called on the same Context again and again.  The variable vm holds the  *)
(* Context, last the method called with its result (and, for validate,     *)
(* the result of the first call), nruns the calls of validate so far, and  *)
(* trapped whether a call has panicked.                                    *)
(***************************************************************************)
\* how many times validate is called on one Context
MaxValidations == 3

GetGlobal(idx) == [op |-> "GetGlobal", idx |-> idx]
RuntimeValue(ty) == [op |-> "RuntimeValue", ty |-> ty]
Br(idx) == [op |-> "Br", idx |-> idx]
BrIf(idx) == [op |-> "BrIf", idx |-> idx]
BrTable(indices, idx) == [op |-> "BrTable", indices |-> indices, idx |-> idx]

\* the align immediates of the memory instructions: the natural ones, one
\* above them, and one at which 2u32.pow overflows
Aligns == {0, 1, 2, 3, 4, 32}

\* bodies that open with the address and a memory instruction
MemoryBodies ==
  {<<I32Const(0), Load(o, align, Zero(32)), Op("End")>> :
     o \in {"I32Load", "I64Load", "I32Load8Unsign", "I64Load16Sign"},
     align \in Aligns}
  \cup
  {<<I32Const(0), I32Const(0), Load(o, align, Zero(32)), Op("End")>> :
     o \in {"I32Store", "I32Store8", "I64Store32"}, align \in Aligns}

FunctionBodies ==
  {<<Op("End")>>,
   <<I32Const(0), Op("End")>>,
   <<I64Const(0), Op("End")>>,
   <<I32Const(0), Op("Return"), I32Const(0), Op("End")>>,
   <<I64Const(0), Op("Return"), I64Const(0), Op("End")>>,
   <<I64Const(0), Op("Return"), I32Const(0), Op("End")>>,
   <<Op("Return"), Op("End")>>,
   <<I32Const(0), I32Const(0), Op("I32Add"), Op("End")>>,
   <<I32Const(0), I64Const(0), Op("I32Add"), Op("End")>>,
   <<Op("I32Add"), Op("End")>>,
   <<Op("DropInst"), I32Const(0), Op("End")>>,
   <<Op("Nop"), Op("Unreachable"), Op("End")>>,
   <<Op("Block"), RuntimeValue("I32"), I32Const(0), Op("End"), Op("End")>>,
   <<Op("Loop"), RuntimeValue("Empty"), Op("End"), Op("End")>>,
   <<Op("Block"), I32Const(0), Op("End"), Op("End")>>,
   <<I32Const(0), Op("If"), RuntimeValue("I32"), I32Const(0), Op("Else"),
     I32Const(0), Op("End"), Op("End")>>,
   <<Op("Block"), RuntimeValue("I32"), I32Const(0), Br(0), Op("End"),
     Op("End")>>,
   <<I32Const(0), I32Const(0), BrIf(0), Op("End")>>,
   <<I32Const(0), I32Const(0), BrTable(<<0>>, 0), Op("End")>>,
   <<I32Const(0), Br(3), Op("End")>>,
   <<GetLocal(0), Op("End")>>,
   <<I32Const(0), [op |-> "SetLocal", idx |-> 0], Op("End")>>,
   <<Call(0), Op("End")>>,
   <<GetGlobal(0), Op("End")>>,
   <<Op("MemorySize"), Op("End")>>,
   <<I32Const(0), Op("MemoryGrow"), Op("End")>>,
   <<I32Const(0), Op("I32CountLeadingZero"), Op("End")>>,
   <<I64Const(0), Op("I64EqualZero"), Op("End")>>,
   <<I64Const(0), I64Const(0), Op("I64LessThanSign"), Op("End")>>,
   <<I32Const(0), I32Const(0), I32Const(0), Op("Select"), Op("End")>>,
   <<I64Const(0), Op("I32WrapI64"), Op("End")>>,
   <<I32Const(0), Op("I64ExtendUnsignI32"), Op("End")>>}
  \cup MemoryBodies

\* the globals of the module: an immutable and a mutable i32, an immutable
\* i64, each with its initialiser
ModuleGlobals ==
  <<<<[kind |-> "Const", ty |-> "I32"], <<I32Const(0), Op("End")>>>>,
    <<[kind |-> "Var", ty |-> "I32"], <<I32Const(0), Op("End")>>>>,
    <<[kind |-> "Const", ty |-> "I64"], <<I64Const(0), Op("End")>>>>>>

\* the expressions validate_constant is applied to
Expressions ==
  {<<I32Const(0), Op("End")>>,
   <<I64Const(0), Op("End")>>,
   <<Op("F32Const"), Op("End")>>,
   <<Op("F64Const"), Op("End")>>,
   <<GetGlobal(0), Op("End")>>,
   <<GetGlobal(1), Op("End")>>,
   <<GetGlobal(2), Op("End")>>,
   <<GetGlobal(3), Op("End")>>,
   <<I32Const(0), I32Const(0), Op("I32Add"), Op("End")>>,
   <<Op("Nop"), Op("End")>>,
   <<I32Const(0)>>,
   <<>>}

\* a decoded module (decode::Section) of functions of one type
Section(returns, bodies, limits, elements) ==
  [function_types |-> <<FunctionType_new(<<>>, returns)>>,
   functions |-> [i \in 1..Len(bodies) |-> 0],
   codes |-> [i \in 1..Len(bodies) |->
                Ok([body |-> bodies[i], locals |-> <<>>])],
   globals |-> ModuleGlobals,
   tables |-> <<"AnyFunc">>,
   elements |-> elements,
   limits |-> limits]

\* bodies of control, local and numeric instructions, checked under result
\* types of all four value types and with and without a declared local
ControlBodies ==
  {<<Op("Unreachable"), Op("End")>>,
   <<Op("Unreachable"), Op("I32Add"), Op("End")>>,
   <<Op("Block"), RuntimeValue("Empty"), Br(0), Op("End"), Op("End")>>,
   <<Op("Loop"), RuntimeValue("Empty"), Br(0), Op("End"), Op("End")>>,
   <<Op("Loop"), RuntimeValue("I32"), Br(0), Op("End"), Op("End")>>,
   <<I32Const(0), Op("If"), RuntimeValue("Empty"), Br(0), Op("End"),
     Op("End")>>,
   <<Op("Block"), RuntimeValue("Empty"), Br(2), Op("End"), Op("End")>>,
   <<Op("Block"), RuntimeValue("Empty"), Op("End"), Op("End")>>,
   <<Op("Block"), RuntimeValue("I32"), I32Const(0), Op("End"), Op("End")>>,
   <<Op("Block"), RuntimeValue("I32"), I32Const(0), Op("End"),
     Op("I32EqualZero"), Op("End")>>,
   <<Op("Block"), RuntimeValue("I32"), I32Const(0), I32Const(0), Op("End"),
     Op("End")>>,
   <<Op("Loop"), RuntimeValue("Empty"), I32Const(0), Op("End"), Op("End")>>,
   <<GetLocal(0), Op("End")>>,
   <<GetLocal(1), Op("End")>>,
   <<I32Const(0), [op |-> "SetLocal", idx |-> 0], Op("End")>>,
   <<I32Const(0), [op |-> "SetLocal", idx |-> 1], Op("End")>>,
   <<Op("F64Const"), Op("F64Const"), Op("I32Add"), Op("End")>>,
   <<Op("F32Const"), Op("I32CountLeadingZero"), Op("End")>>,
   <<I32Const(0), Op("I64EqualZero"), Op("End")>>,
   <<I32Const(0), I32Const(0), Op("I32Add"), Op("End")>>,
   <<I32Const(0), Op("I32CountLeadingZero"), Op("End")>>,
   <<I64Const(0), Op("I64EqualZero"), Op("End")>>}

Sections ==
  {[Section(returns, <<body>>, <<>>, <<>>)
      EXCEPT !.codes[1].val.locals = locals] :
     returns \in {<<>>, <<"I32">>, <<"F32">>, <<"F64">>},
     body \in ControlBodies,
     locals \in {<<>>, <<"I32">>}}
  \cup
  {Section(returns, <<body>>, limits, <<>>) :
     returns \in {<<>>, <<"I32">>, <<"I64">>},
     body \in FunctionBodies,
     limits \in {<<>>, <<"NoUpperLimit">>}}
  \cup
  {Section(<<"I32">>, <<<<I32Const(0), Op("End")>>>>, <<>>,
           <<[table_idx |-> table_idx, offset |-> offset, init |-> init]>>) :
     table_idx \in {0, 1},
     offset \in {<<I32Const(0), Op("End")>>, <<I64Const(0), Op("End")>>,
                 <<GetGlobal(1), Op("End")>>},
     init \in {<<0>>, <<1>>}}
  \cup
  {Section(returns, <<first, second>>, <<>>, <<>>) :
     returns \in {<<>>, <<"I32">>},
     first \in {<<Op("End")>>, <<I32Const(0), Op("End")>>,
                <<Op("I32Add"), Op("End")>>},
     second \in {<<Op("End")>>, <<I32Const(0), Op("End")>>}}

InitValidate ==
  /\ vm \in {validate_Context_new(module, overflow_checks).val :
               module \in Sections, overflow_checks \in BOOLEAN}
  /\ last = NoOperation
  /\ nruns = 0
  /\ trapped = FALSE

\* validate_constant on an expression: it takes &self and leaves it as it is
ValidateConstant(expr) ==
  /\ last = NoOperation
  /\ last' = [kind |-> "validate_constant", expr |-> expr,
              result |-> validate_constant(vm, expr)]
  /\ UNCHANGED <<vm, nruns, trapped>>

\* one more call of validate on the same Context
ValidateContext(r) ==
  /\ vm' = r.cx
  /\ last' = [kind |-> "validate", result |-> r.res,
              first |-> IF nruns = 0 THEN r.res ELSE last.first]
  /\ nruns' = nruns + 1
  /\ trapped' = (r.res = Unimplemented
                   \/ r.res = u32_pow2(32, TRUE))

CallValidate ==
  /\ nruns < MaxValidations
  /\ ~trapped
  /\ ValidateContext(validate(vm))

NextValidate == CallValidate \/ \E expr \in Expressions : ValidateConstant(expr)
SpecValidate == InitValidate /\ [][NextValidate]_vars

\* C13: validate is free of side effects: called any number of times on the
\* same Context, it returns the same outcome each time, the outcome of the
\* first call.
C13_ValidateRepeatable ==
  last.kind = "validate" => last.result = last.first

\* the bytes a memory instruction accesses: its bit width over 8
AccessBytes(o) ==
  CASE o \in {"I32Load8Sign", "I32Load8Unsign", "I64Load8Sign",
              "I64Load8Unsign", "I32Store8", "I64Store8"} -> 1
    [] o \in {"I32Load16Sign", "I32Load16Unsign", "I64Load16Sign",
              "I64Load16Unsign", "I32Store16", "I64Store16"} -> 2
    [] o \in {"I32Load", "F32Load", "I64Load32Sign", "I64Load32Unsign",
              "I32Store", "F32Store", "I64Store32"} -> 4
    [] o \in {"I64Load", "F64Load", "I64Store", "F64Store"} -> 8
    [] OTHER -> 0
\* 2^align exceeds the bytes accessed (8 = 2^3 at most)
Misaligned(inst) ==
  /\ AccessBytes(inst.op) > 0
  /\ (inst.align > 3 \/ 2 ^ inst.align > AccessBytes(inst.op))
\* the first instruction of the body that is no constant is a misaligned
\* load or store
OpensMisaligned(body) ==
  \E k \in 1..Len(body) :
     /\ Misaligned(body[k])
     /\ \A j \in 1..(k - 1) : body[j].op \in {"I32Const", "I64Const"}
\* validate has been called once on a Context without element segments
FirstValidate ==
  last.kind = "validate" /\ nruns = 1 /\ Len(vm.elements) = 0

\* C14: when a memory is declared, every load and store whose align
\* immediate has 2^align above the bytes it accesses, an align of 32 or
\* more included, is rejected with InvalidAlignment.
C14_MisalignedRejected ==
  (FirstValidate /\ Len(vm.limits) > 0
     /\ OpensMisaligned(vm.functions[1].body)) =>
     last.result = Err("InvalidAlignment")

\* a constant expression as the claim defines it: one const, or GetGlobal of
\* an immutable global, then End (whether the global is imported is nothing
\* the Context records)
ConstantExpression(self, expr) ==
  /\ Len(expr) = 2
  /\ expr[2].op = "End"
  /\ \/ expr[1].op \in {"I32Const", "I64Const", "F32Const", "F64Const"}
     \/ /\ expr[1].op = "GetGlobal"
        /\ expr[1].idx < Len(self.globals)
        /\ self.globals[expr[1].idx + 1][1].kind = "Const"

\* C15: a constant expression is accepted only if it is exactly one const
\* instruction or a GetGlobal of an imported immutable global followed by
\* End; every other expression is rejected with ConstantExpressionRequired.
C15_ConstantExpression ==
  last.kind = "validate_constant" =>
     IF ConstantExpression(vm, last.expr) THEN last.result.ok
     ELSE last.result = Err("ConstantExpressionRequired")

\* the type of a const instruction
ConstType(inst) == IF inst.op = "I32Const" THEN "I32" ELSE "I64"
\* the body is `const; return; const; end`
ReturnsConst(body) ==
  /\ Len(body) = 4
  /\ body[1].op \in {"I32Const", "I64Const"}
  /\ body[2].op = "Return"
  /\ body[3].op \in {"I32Const", "I64Const"}
  /\ body[4].op = "End"
\* the body is `const; end`
EndsConst(body) ==
  Len(body) = 2 /\ body[1].op \in {"I32Const", "I64Const"} /\ body[2].op = "End"

\* C16: a Return and the final End of a function need the declared result
\* type on top of the type stack: in a function declared to return i32,
\* `return` (and `end`) with an i32 on the stack is accepted, with a value of
\* another type it is rejected with TypeMismatch.
C16_DeclaredResultOnTop ==
  (FirstValidate /\ Len(vm.functions) = 1
     /\ Len(vm.functions[1].function_type.returns) = 1) =>
     LET body == vm.functions[1].body
         declared == vm.functions[1].function_type.returns[1]
     IN  /\ ReturnsConst(body) =>
              IF ConstType(body[1]) = declared /\ ConstType(body[3]) = declared
              THEN last.result.ok
              ELSE last.result = Err("TypeMismatch")
         /\ EndsConst(body) =>
              IF ConstType(body[1]) = declared THEN last.result.ok
              ELSE last.result = Err("TypeMismatch")

(***************************************************************************)
(* src/src/module.rs: ExternalModule and the resolution of a function or   *)
(* table import.  In the specification SpecImport the variable vm holds    *)
(* the registered ExternalModule and last the import resolved against it   *)
(* with the result.                                                        *)
(***************************************************************************)
\* how many function instances an external module holds at most
MaxExports == 2

\* FunctionInstance::validate_type, which module.rs:229-231 calls and maps
\* to Trap::IncompatibleImportType; neither is declared in function.rs and
\* trap.rs.  Ok for the identical FunctionType
validate_type(self, other) ==
  IF self.function_type = Ok(other) THEN Ok(<<>>) ELSE Err("TypeMismatch")

\* ExternalModule::new (no memory or global instances)
ExternalModule_new(function_instances, function_types, table_instances) ==
  [function_instances |-> function_instances,
   function_types |-> function_types,
   table_instances |-> table_instances]

\* the import of a function under `name` with the type of index idx
ImportFunction(name, idx) ==
  [descriptor |-> [kind |-> "ImportDescriptor::Function", idx |-> idx],
   name |-> name]

\* find_function_instance without the comparison of the types
find_function_instance_untyped(self, key, function_types) ==
  LET named == {i \in 1..Len(self.function_instances) :
                  self.function_instances[i].export_name = Some(key.name)}
  IN  IF named = {} THEN Err("UnknownImport")
      ELSE Ok(self.function_instances[CHOOSE i \in named :
                                        \A j \in named : i <= j])

\* ExternalModule::find_function_instance: find() takes the first instance
\* exported under the name; a missing type index is the conversion of
\* NoneError, Trap::UnexpectedEnd
find_function_instance(self, key, function_types) ==
  LET named == {i \in 1..Len(self.function_instances) :
                  self.function_instances[i].export_name = Some(key.name)}
      typed(instance, expected_type) ==
        IF ~validate_type(instance, expected_type).ok
        THEN Err("IncompatibleImportType")
        ELSE Ok(instance)
  IN  IF key.descriptor.kind # "ImportDescriptor::Function"
      THEN [ok |-> FALSE, trap |-> "panic: Expected function descriptor"]
      ELSE IF key.descriptor.idx >= Len(function_types)
      THEN Err("UnexpectedEnd")
      ELSE IF named = {} THEN Err("UnknownImport")
      ELSE typed(self.function_instances[CHOOSE i \in named :
                                           \A j \in named : i <= j],
                 function_types[key.descriptor.idx + 1])

\* TableType::new: the element kind and the limit, which is its minimum and,
\* in a sequence of at most one element, its maximum
TableType_new(element_type, limit) ==
  [element_type |-> element_type, limit |-> limit]

\* a TableInstance: its export name and the type it was created with
TableInstance(export_name, table_type) ==
  [export_name |-> export_name, table_type |-> table_type]

\* the import of a table under `name` with the declared type
ImportTable(name, table_type) ==
  [descriptor |-> [kind |-> "ImportDescriptor::Table",
                   table_type |-> table_type],
   name |-> name]

\* ExternalModule::find_table_instance: find() takes the first instance
\* exported under the name; the table_type of the key is bound and not used
find_table_instance(self, key) ==
  LET named == {i \in 1..Len(self.table_instances) :
                  self.table_instances[i].export_name = Some(key.name)}
  IN  IF key.descriptor.kind # "ImportDescriptor::Table"
      THEN [ok |-> FALSE, trap |-> "panic: Expected table descriptor"]
      ELSE IF named = {} THEN Err("UnknownImport")
      ELSE Ok(self.table_instances[CHOOSE i \in named :
                                     \A j \in named : i <= j])

\* the function types the importing module declares
ImportingTypes ==
  <<FunctionType_new(<<>>, <<"I32">>),
    FunctionType_new(<<"I32">>, <<"I32">>),
    FunctionType_new(<<"I32">>, <<>>)>>

\* the instances an external module may hold: exported under a name or
\* not exported, of a declared type, of another one, or of none
ExportedInstances ==
  {FunctionInstance_new(export_name, function_type, <<>>, 0, <<Op("End")>>) :
     export_name \in {Some("f"), Some("g"), NoName},
     function_type \in {Ok(ImportingTypes[1]), Ok(ImportingTypes[2]),
                        Ok(FunctionType_new(<<"I64">>, <<"I32">>)),
                        Err("UnexpectedEnd")}}

RECURSIVE InstanceVectors(_)
\* the vectors of at most n instances; an export name may be used twice
InstanceVectors(n) ==
  IF n = 0 THEN {<<>>}
  ELSE InstanceVectors(n - 1)
       \cup {Append(v, x) : v \in {w \in InstanceVectors(n - 1) :
                                      Len(w) = n - 1},
                            x \in ExportedInstances}

\* the imports resolved: a name the module may export and a type index
ImportKeys ==
  {ImportFunction(name, idx) : name \in {"f", "g", "h"}, idx \in 0..3}
  \cup {[descriptor |-> [kind |-> "ImportDescriptor::Table", idx |-> 0],
         name |-> "f"]}

\* limits with minimum 1 or 2 and no maximum or the maximum 2 or 3
TableLimits ==
  {[min |-> min, max |-> max] :
     min \in {1, 2}, max \in {<<>>, <<2>>, <<3>>}}

\* the tables an external module may hold, exported under a name or not
ExportedTables ==
  {TableInstance(export_name, TableType_new("AnyFunc", limit)) :
     export_name \in {Some("f"), Some("g"), NoName}, limit \in TableLimits}

\* the table imports resolved, and the import of a function
TableKeys ==
  {ImportTable(name, TableType_new("AnyFunc", limit)) :
     name \in {"f", "h"}, limit \in TableLimits}
  \cup {ImportFunction("f", 0)}

InitImport ==
  /\ vm \in {ExternalModule_new(v, <<>>, <<>>) :
               v \in InstanceVectors(MaxExports)}
             \cup
             {ExternalModule_new(<<>>, <<>>, t) :
                t \in {<<>>} \cup {<<x>> : x \in ExportedTables}
                       \cup {<<x, y>> : x, y \in ExportedTables}}
  /\ last = NoOperation
  /\ nruns = 0
  /\ trapped = FALSE

\* one import resolved against the external module
FindFunctionInstance(key) ==
  /\ last' = [kind |-> "find_function_instance", key |-> key,
              function_types |-> ImportingTypes,
              result |-> find_function_instance(vm, key, ImportingTypes)]
  /\ UNCHANGED <<vm, nruns, trapped>>

\* one table import resolved against the external module
FindTableInstance(key) ==
  /\ last' = [kind |-> "find_table_instance", key |-> key,
              result |-> find_table_instance(vm, key)]
  /\ UNCHANGED <<vm, nruns, trapped>>

NextImport ==
  \/ \E key \in ImportKeys : FindFunctionInstance(key)
  \/ \E key \in TableKeys : FindTableInstance(key)
SpecImport == InitImport /\ [][NextImport]_vars

\* the import of last is one of a function
ResolvedFunction ==
  /\ last.kind = "find_function_instance"
  /\ last.key.descriptor.kind = "ImportDescriptor::Function"
\* the importing module declares the type index of the import
DeclaredIndex == last.key.descriptor.idx < Len(last.function_types)
\* the instances of the external module exported under the imported name
Named == {i \in 1..Len(vm.function_instances) :
            vm.function_instances[i].export_name = Some(last.key.name)}
\* the first of them
FirstNamed == vm.function_instances[CHOOSE i \in Named : \A j \in Named : i <= j]
Declared == last.function_types[last.key.descriptor.idx + 1]

InU32Range(bits) == \A i \in 33..64 : bits[i] = 0

\* C18: for every i64 value x, i64.extend_i32_u(i32.wrap_i64(x)) equals x
\* if and only if x is in [0, 2^32): wrap keeps the low 32 bits and
\* extend_i32_u extends with zeros, so the result is never negative.
C18_WrapExtend ==
  last.kind = "wrap_extend" =>
     /\ last.res = "Ok"
     /\ vm.stack_ptr = 1
     /\ Top.kind = "Value"
     /\ Top.v.ty = "I64"
     /\ (Top.v = Left) <=> InU32Range(Left.bits)
     /\ ~IsNeg(Top.v.bits)

(***************************************************************************)
(* src/src/byte.rs: the decoder.  A Byte is the vector of bytes (naturals  *)
(* below 256) and byte_ptr, with the build profile overflow_checks as for  *)
(* the validator.  An Option is Decoded(v) or None, a panic is Aborted;    *)
(* the methods that take &mut self return the Byte they leave and that     *)
(* result.  An export name is the sequence of its bytes.                   *)
(***************************************************************************)
Decoded(v) == [kind |-> "Some", val |-> v]
Aborted(message) == [kind |-> "panic", message |-> message]

\* Byte::new
Byte_new(bytes, overflow_checks) ==
  [bytes |-> bytes, byte_ptr |-> 0, overflow_checks |-> overflow_checks]

\* Byte::has_next
has_next(self) == self.byte_ptr < Len(self.bytes)

\* Byte::peek
peek(self) ==
  IF self.byte_ptr < Len(self.bytes)
  THEN Decoded(self.bytes[self.byte_ptr + 1]) ELSE None

\* Byte::next
Byte_next(self) ==
  [self |-> [self EXCEPT !.byte_ptr = @ + 1], res |-> peek(self)]

\* k times `self.next()?`: the bytes read, or None from the call that finds
\* no byte
next_bytes(self, k) ==
  IF self.byte_ptr + k <= Len(self.bytes)
  THEN [self |-> [self EXCEPT !.byte_ptr = @ + k],
        res |-> Decoded(SubSeq(self.bytes, self.byte_ptr + 1,
                               self.byte_ptr + k))]
  ELSE [self |-> [self EXCEPT !.byte_ptr = Len(self.bytes) + 1], res |-> None]

\* Code::from_byte
Code_from_byte(code) ==
  IF code.kind # "Some" THEN "unreachable"
  ELSE CASE code.val = 1 -> "SectionType"
         [] code.val = 3 -> "SectionFunction"
         [] code.val = 7 -> "SectionExport"
         [] code.val = 10 -> "SectionCode"
         [] code.val = 127 -> "ValueType"
         [] code.val = 65 -> "ConstI32"
         [] code.val = 96 -> "TypeFunction"
         [] code.val = 32 -> "GetLocal"
         [] code.val = 33 -> "SetLocal"
         [] code.val = 106 -> "Add"
         [] code.val = 107 -> "Sub"
         [] code.val = 16 -> "Call"
         [] code.val = 70 -> "Equal"
         [] code.val = 71 -> "NotEqual"
         [] code.val = 72 -> "LessThans"
         [] code.val = 74 -> "GraterThans"
         [] code.val = 27 -> "Select"
         [] code.val = 11 -> "End"
         [] OTHER -> "unreachable"

\* n times `ValueTypes::from_byte(self.next())`, each after `skip` calls of
\* self.next() whose byte is dropped: 0x7f is I32, another byte is
\* unimplemented!() and no byte unreachable!()
value_types(self, n, skip) ==
  LET at(i) == self.byte_ptr + i * (skip + 1)
      bad == {i \in 1..n : IF at(i) > Len(self.bytes) THEN TRUE
                           ELSE self.bytes[at(i)] # 127}
      stop(i) ==
        [self |-> [self EXCEPT !.byte_ptr = at(i)],
         res |-> Aborted(IF at(i) > Len(self.bytes) THEN "unreachable"
                         ELSE "not implemented")]
  IN  IF bad = {}
      THEN [self |-> [self EXCEPT !.byte_ptr = at(n)],
            res |-> Decoded([i \in 1..n |-> "I32"])]
      ELSE stop(CHOOSE i \in bad : \A j \in bad : i <= j)

\* Byte::decode_leb128, the loop from a byte on: buf and shift so far.  A
\* shift by 32 and more panics with overflow checks and is taken modulo 32
\* without them.
RECURSIVE decode_leb128_from(_, _, _)
decode_leb128_from(self, buf, shift) ==
  LET xor(num) ==
        bitxor(buf, Shl(FromInt(num, 32),
                        IF self.overflow_checks THEN shift ELSE shift % 32))
      group(byte) ==
        IF byte.kind # "Some" THEN [self |-> self, res |-> None]
        ELSE IF shift >= 32 /\ self.overflow_checks
        THEN [self |-> Byte_next(self).self,
              res |-> Aborted("attempt to shift left with overflow")]
        ELSE IF byte.val >= 128
        THEN decode_leb128_from(Byte_next(self).self, xor(byte.val - 128),
                                shift + 7)
        ELSE [self |-> Byte_next(self).self, res |-> Decoded(xor(byte.val))]
  IN  group(peek(self))

decode_leb128(self) == decode_leb128_from(self, Zero(32), 0)

\* Byte::decode_section_type
decode_section_type(self) ==
  LET RECURSIVE types(_, _, _)
      types(s, n, function_types) ==
        LET returns(parameters, r) ==
              IF r.res.kind # "Some" THEN r
              ELSE types(r.self, n - 1,
                         Append(function_types,
                                FunctionType_new(parameters, r.res.val)))
            size_of_result(parameters, size) ==
              IF size.res.kind # "Some" THEN size
              ELSE returns(parameters,
                           value_types(size.self, size.res.val, 0))
            parameters(r) ==
              IF r.res.kind # "Some" THEN r
              ELSE size_of_result(r.res.val, Byte_next(r.self))
            size_of_arity(size) ==
              IF size.res.kind # "Some" THEN size
              ELSE parameters(value_types(size.self, size.res.val, 0))
            type_function(code) ==
              IF Code_from_byte(code.res) = "unreachable"
              THEN [self |-> code.self, res |-> Aborted("unreachable")]
              ELSE size_of_arity(Byte_next(code.self))
        IN  IF n = 0 THEN [self |-> s, res |-> Decoded(function_types)]
            ELSE type_function(Byte_next(s))
      count_of_type(header) ==
        IF header.res.kind # "Some" THEN header
        ELSE types(header.self, header.res.val[2], <<>>)
  IN  count_of_type(next_bytes(self, 2))

\* String::from_utf8 succeeds: the bytes from the i-th on are well-formed
\* UTF-8 (no stray continuation byte, no overlong form, no surrogate, nothing
\* above U+10FFFF, no sequence cut short)
RECURSIVE is_utf8(_, _)
is_utf8(buf, i) ==
  LET cont(k) == k <= Len(buf) /\ buf[k] \in 128..191
      within(k, low, high) == k <= Len(buf) /\ buf[k] \in low..high
      b == buf[i]
  IN  IF i > Len(buf) THEN TRUE
      ELSE CASE b < 128 -> is_utf8(buf, i + 1)
             [] b \in 194..223 -> cont(i + 1) /\ is_utf8(buf, i + 2)
             [] b = 224 -> within(i + 1, 160, 191) /\ cont(i + 2)
                           /\ is_utf8(buf, i + 3)
             [] b \in (225..236) \cup {238, 239} ->
                  cont(i + 1) /\ cont(i + 2) /\ is_utf8(buf, i + 3)
             [] b = 237 -> within(i + 1, 128, 159) /\ cont(i + 2)
                           /\ is_utf8(buf, i + 3)
             [] b = 240 -> within(i + 1, 144, 191) /\ cont(i + 2)
                           /\ cont(i + 3) /\ is_utf8(buf, i + 4)
             [] b \in 241..243 -> cont(i + 1) /\ cont(i + 2) /\ cont(i + 3)
                                  /\ is_utf8(buf, i + 4)
             [] b = 244 -> within(i + 1, 128, 143) /\ cont(i + 2)
                           /\ cont(i + 3) /\ is_utf8(buf, i + 4)
             [] OTHER -> FALSE

\* Byte::decode_section_export: the expect() on String::from_utf8 panics on a
\* name that is not UTF-8, after the bytes of the name have been read.
decode_section_export(self) ==
  LET RECURSIVE exports(_, _, _)
      exports(s, n, acc) ==
        LET idx_of_fn(key, idx) ==
              IF idx.res.kind # "Some" THEN idx
              ELSE exports(idx.self, n - 1, Append(acc, <<key, idx.res.val>>))
            description(key, code) ==
              IF code.res = Decoded(0) THEN idx_of_fn(key, Byte_next(code.self))
              ELSE [self |-> code.self,
                    res |-> Aborted(IF code.res \in {Decoded(1), Decoded(2),
                                                     Decoded(3)}
                                    THEN "not implemented"
                                    ELSE "unreachable")]
            name(buf) ==
              IF buf.res.kind # "Some" THEN buf
              ELSE IF ~is_utf8(buf.res.val, 1)
              THEN [self |-> buf.self,
                    res |-> Aborted("To encode export name has been failured.")]
              ELSE description(buf.res.val, Byte_next(buf.self))
            size_of_name(size) ==
              IF size.res.kind # "Some" THEN size
              ELSE name(next_bytes(size.self, size.res.val))
        IN  IF n = 0 THEN [self |-> s, res |-> Decoded(acc)]
            ELSE size_of_name(Byte_next(s))
      count_of_exports(header) ==
        IF header.res.kind # "Some" THEN header
        ELSE exports(header.self, header.res.val[2], <<>>)
  IN  count_of_exports(next_bytes(self, 2))

\* Byte::decode_section_code
decode_section_code(self) ==
  LET RECURSIVE expressions(_, _)
      expressions(s, acc) ==
        LET const(r) ==
              IF r.res.kind # "Some" THEN r
              ELSE expressions(r.self,
                               Append(acc, [op |-> "Const", n |-> r.res.val]))
            indexed(code, r) ==
              IF r.res.kind # "Some" THEN r
              ELSE expressions(r.self,
                               Append(acc, [op |-> code, idx |-> r.res.val]))
            match(code, s1) ==
              CASE code = "ConstI32" -> const(decode_leb128(s1))
                [] code \in {"GetLocal", "SetLocal", "Call"} ->
                     indexed(code, Byte_next(s1))
                [] code \in {"Add", "Sub", "Equal", "NotEqual", "LessThans",
                             "GraterThans", "Select"} ->
                     expressions(s1, Append(acc, [op |-> code]))
                [] code = "unreachable" ->
                     [self |-> s1, res |-> Aborted("unreachable")]
                [] OTHER -> [self |-> s1, res |-> Aborted("not implemented")]
        IN  IF peek(s) = Decoded(11)
            THEN [self |-> Byte_next(s).self, res |-> Decoded(acc)]
            ELSE match(Code_from_byte(peek(s)), Byte_next(s).self)
      RECURSIVE codes(_, _, _)
      codes(s, n, acc) ==
        LET body(locals, r) ==
              IF r.res.kind # "Some" THEN r
              ELSE codes(r.self, n - 1, Append(acc, <<r.res.val, locals>>))
            locals(r) ==
              IF r.res.kind # "Some" THEN r
              ELSE body(r.res.val, expressions(r.self, <<>>))
            count_of_locals(sizes) ==
              IF sizes.res.kind # "Some" THEN sizes
              ELSE locals(value_types(sizes.self, sizes.res.val[2], 1))
        IN  IF n = 0 THEN [self |-> s, res |-> Decoded(acc)]
            ELSE count_of_locals(next_bytes(s, 2))
      count_of_code(header) ==
        IF header.res.kind # "Some" THEN header
        ELSE codes(header.self, header.res.val[2], <<>>)
  IN  count_of_code(next_bytes(self, 2))

\* Byte::decode_section_function
decode_section_function(self) ==
  LET type_indexes(header) ==
        IF header.res.kind # "Some" THEN header
        ELSE next_bytes(header.self, header.res.val[2])
  IN  type_indexes(next_bytes(self, 2))

\* Byte::decode: the sections while a byte is left, each decoded section
\* taking the place of what its variable held, then the function instances
decode(self) ==
  LET RECURSIVE sections(_, _)
      sections(s, vectors) ==
        LET section(field, r) ==
              IF r.res.kind # "Some" THEN r
              ELSE sections(r.self, [vectors EXCEPT ![field] = r.res.val])
            match(code, s1) ==
              CASE code = "SectionType" ->
                     section("function_types", decode_section_type(s1))
                [] code = "SectionFunction" ->
                     section("index_of_types", decode_section_function(s1))
                [] code = "SectionExport" ->
                     section("function_key_and_indexes",
                             decode_section_export(s1))
                [] code = "SectionCode" ->
                     section("list_of_expressions", decode_section_code(s1))
                [] OTHER -> [self |-> s1, res |-> Aborted("unreachable")]
        IN  IF ~has_next(s) THEN [self |-> s, res |-> Decoded(vectors)]
            ELSE match(Code_from_byte(peek(s)), Byte_next(s).self)
      export_name(exports, idx_of_fn) ==
        LET found == {k \in 1..Len(exports) : exports[k][2] = idx_of_fn}
        IN  IF found = {} THEN NoName
            ELSE Some(exports[CHOOSE k \in found : \A j \in found : k <= j][1])
      function_instances(v) ==
        IF \E i \in 1..Len(v.list_of_expressions) :
              i > Len(v.function_types) \/ i > Len(v.index_of_types)
        THEN None
        ELSE Decoded([i \in 1..Len(v.list_of_expressions) |->
               [export_name |->
                  export_name(v.function_key_and_indexes, i - 1),
                function_type |-> v.function_types[i],
                locals |-> v.list_of_expressions[i][2],
                type_idex |-> v.index_of_types[i],
                body |-> v.list_of_expressions[i][1]]])
      decoded(r) ==
        IF r.res.kind # "Some" THEN r
        ELSE [self |-> r.self, res |-> function_instances(r.res.val)]
  IN  decoded(sections(self, [function_types |-> <<>>,
                              index_of_types |-> <<>>,
                              function_key_and_indexes |-> <<>>,
                              list_of_expressions |-> <<>>]))

(***************************************************************************)
(* Specification SpecDecode: a Byte over the bytes of a module (after the  *)
(* header) or of one LEB128 integer, decoded once.  The variable vm holds  *)
(* the Byte, last the method called with its result, trapped whether the   *)
(* call panicked.                                                          *)
(***************************************************************************)
\* LEB128 encodings: one to six bytes, and one cut short
Immediates ==
  {<<0>>, <<42>>, <<63>>, <<64>>, <<127>>, <<128, 1>>, <<255, 1>>,
   <<255, 127>>, <<128, 127>>, <<192, 196, 7>>, <<255, 255, 255, 127>>,
   <<255, 255, 255, 255, 15>>, <<128, 128, 128, 128, 128, 1>>, <<128>>}

\* the sections of a module with one exported function `f` of type
\* () -> i32 whose body is `i32.const imm`
TypeSection == <<1, 5, 1, 96, 0, 1, 127>>
TypeSectionOfParameter == <<1, 6, 1, 96, 1, 127, 1, 127>>
FunctionSection == <<3, 2, 1, 0>>
ExportSection == <<7, 5, 1, 1, 102, 0, 0>>
ExportSectionOfG == <<7, 5, 1, 1, 103, 0, 0>>
CodeSection(imm) ==
  <<10, 4 + Len(imm), 1, 2 + Len(imm), 0, 65>> \o imm \o <<11>>
\* an empty section of the given id
EmptySection(id) == <<id, 0>>

\* the ids of the sections of a module, 0 the custom section
SectionIds == 0..11

\* modules as the lists of their sections
WellFormedModules ==
  {<<TypeSection, FunctionSection, ExportSection, CodeSection(imm)>> :
     imm \in Immediates}
RepeatingModules ==
  {<<TypeSection, FunctionSection, ExportSection, CodeSection(<<42>>),
     CodeSection(<<7>>)>>,
   <<TypeSection, TypeSectionOfParameter, FunctionSection, ExportSection,
     CodeSection(<<42>>)>>,
   <<TypeSection, FunctionSection, FunctionSection, ExportSection,
     CodeSection(<<42>>)>>,
   <<TypeSection, FunctionSection, ExportSection, ExportSectionOfG,
     CodeSection(<<42>>)>>}
UnknownIdModules ==
  {<<EmptySection(id), TypeSection, FunctionSection, ExportSection,
     CodeSection(<<42>>)>> : id \in {12, 13, 64}}
  \cup
  {<<TypeSection, FunctionSection, ExportSection, CodeSection(<<42>>),
     EmptySection(id)>> : id \in {12, 13, 64}}
\* export names that are not UTF-8 (a byte no sequence starts with, a stray
\* continuation byte, an overlong form, a surrogate) and one that is
ExportNames ==
  {<<255>>, <<128>>, <<192, 128>>, <<237, 160, 128>>, <<195, 169>>}
ExportSectionNamed(name) ==
  <<7, 4 + Len(name), 1, Len(name)>> \o name \o <<0, 0>>
NamedModules ==
  {<<TypeSection, FunctionSection, ExportSectionNamed(name),
     CodeSection(<<42>>)>> : name \in ExportNames}
SectionLists ==
  WellFormedModules \cup RepeatingModules \cup UnknownIdModules
  \cup NamedModules

RECURSIVE Flatten(_)
Flatten(list) == IF Len(list) = 0 THEN <<>> ELSE Head(list) \o Flatten(Tail(list))

InitDecode ==
  /\ vm \in {Byte_new(bytes, overflow_checks) :
               bytes \in Immediates \cup {Flatten(list) : list \in SectionLists},
               overflow_checks \in BOOLEAN}
  /\ last = NoOperation
  /\ nruns = 0
  /\ trapped = FALSE

\* the bookkeeping of a call on the Byte
Called(method, r) ==
  /\ vm' = r.self
  /\ last' = [kind |-> method, result |-> r.res]
  /\ trapped' = (r.res.kind = "panic")
  /\ UNCHANGED nruns

\* Byte::decode on the fresh Byte
Decode == last = NoOperation /\ Called("decode", decode(vm))

\* Byte::decode_leb128 on the fresh Byte
DecodeLeb128 == last = NoOperation /\ Called("decode_leb128", decode_leb128(vm))

NextDecode == Decode \/ DecodeLeb128
SpecDecode == InitDecode /\ [][NextDecode]_vars

\* the bytes are one complete LEB128 encoding of at most four groups
CompleteLeb128(bytes) ==
  /\ Len(bytes) \in 1..4
  /\ bytes[Len(bytes)] < 128
  /\ \A i \in 1..(Len(bytes) - 1) : bytes[i] >= 128
\* the number the groups stand for, low group first
RECURSIVE UnsignedGroups(_)
UnsignedGroups(bytes) ==
  IF Len(bytes) = 0 THEN 0
  ELSE (Head(bytes) % 128) + 128 * UnsignedGroups(Tail(bytes))
\* signed LEB128: the sign is bit 6 of the final group
SignedLeb128(bytes) ==
  IF bytes[Len(bytes)] >= 64
  THEN UnsignedGroups(bytes) - 128 ^ Len(bytes)
  ELSE UnsignedGroups(bytes)

\* C19: the immediate of i32.const is decoded as signed LEB128: the bytes
\* are 7-bit little-endian groups and the value is sign-extended from bit 6
\* of the final group (0x7f is -1, 0x40 is -64, 0xff 0x01 is 255), by
\* decode_leb128 and in the body that decode returns.
C19_SignedLeb128 ==
  /\ (last.kind = "decode_leb128" /\ CompleteLeb128(vm.bytes)) =>
        last.result = Decoded(FromInt(SignedLeb128(vm.bytes), 32))
  /\ last.kind = "decode" =>
        \A imm \in Immediates :
           (/\ CompleteLeb128(imm)
            /\ vm.bytes = Flatten(<<TypeSection, FunctionSection,
                                    ExportSection, CodeSection(imm)>>)) =>
              /\ last.result.kind = "Some"
              /\ last.result.val[1].body
                   = <<[op |-> "Const", n |-> FromInt(SignedLeb128(imm), 32)]>>

\* the module of the Byte has a section of an id outside 0..11, or a section
\* other than the custom one twice
BadSections ==
  \E list \in SectionLists :
     /\ vm.bytes = Flatten(list)
     /\ \/ \E i \in 1..Len(list) : list[i][1] \notin SectionIds
        \/ \E i, j \in 1..Len(list) :
              i # j /\ list[i][1] = list[j][1] /\ list[i][1] # 0

\* C20: decoding a module whose next section id is outside 0..11, or that
\* repeats a non-custom section, ends with the error InvalidSectionId
\* returned to the caller; the decoder neither aborts nor keeps the later
\* copy of a repeated section.
C20_InvalidSectionId ==
  (last.kind = "decode" /\ BadSections) =>
     last.result = [kind |-> "Err", trap |-> "InvalidSectionId"]

\* the single function of the Context: its body and its declared results
SoleBody == vm.functions[1].body
SoleReturns == vm.functions[1].function_type.returns
\* validate has been called once on a Context of one function
SoleValidated == FirstValidate /\ Len(vm.functions) = 1

\* the body is Unreachable, after any number of Nop, and then End
StopsAtUnreachable(body) ==
  /\ Len(body) >= 2
  /\ body[Len(body)].op = "End"
  /\ body[Len(body) - 1].op = "Unreachable"
  /\ \A k \in 1..(Len(body) - 2) : body[k].op = "Nop"

\* C21: after Unreachable the type stack is polymorphic until the next label
\* boundary: the End of the function that follows Unreachable is accepted
\* whatever the declared result type, and so is an I32Add between the two in
\* a function that returns i32, although no value was pushed.
C21_UnreachablePolymorphic ==
  SoleValidated =>
     /\ StopsAtUnreachable(SoleBody) => last.result.ok
     /\ (SoleBody = <<Op("Unreachable"), Op("I32Add"), Op("End")>>
           /\ SoleReturns = <<"I32">>) => last.result.ok

\* the labels open before the k-th instruction of the body: the one of the
\* function and one for each Block, Loop or If not yet ended
OpenLabels(body, k) ==
  1 + Cardinality({j \in 1..(k - 1) : body[j].op \in {"Block", "Loop", "If"}})
    - Cardinality({j \in 1..(k - 1) : body[j].op = "End"})
\* the body is a Block, Loop or If without result whose only instruction is
\* a Br to its own label
BranchesToOwnLabel(body) ==
  \/ body \in {<<Op(kind), RuntimeValue("Empty"), Br(0), Op("End"), Op("End")>> :
                 kind \in {"Block", "Loop"}}
  \/ body = <<I32Const(0), Op("If"), RuntimeValue("Empty"), Br(0), Op("End"),
              Op("End")>>
\* the first instruction after constants and block openings is a Br whose
\* index is beyond the open labels
BranchesBeyond(body) ==
  \E k \in 1..Len(body) :
     /\ body[k].op = "Br"
     /\ body[k].idx >= OpenLabels(body, k)
     /\ \A j \in 1..(k - 1) :
           body[j].op \in {"I32Const", "Block", "Loop", "RuntimeValue"}

\* C22: Br(l) requires the operands of label l's branch-target type: none
\* for a Block or If label without result and none for a Loop label, whose
\* target type is its parameters, so such a Br is accepted with no value on
\* the stack; an l beyond the label stack is rejected with UnknownLabel.
C22_BranchTargetType ==
  SoleValidated =>
     /\ (SoleReturns = <<>> /\ BranchesToOwnLabel(SoleBody)) => last.result.ok
     /\ (SoleReturns = <<"I32">>
           /\ SoleBody = <<Op("Loop"), RuntimeValue("I32"), Br(0), Op("End"),
                           Op("End")>>) => last.result.ok
     /\ BranchesBeyond(SoleBody) => last.result = Err("UnknownLabel")
\* the rejection of a Br beyond the label stack, taken alone
C22_UnknownLabel ==
  (SoleValidated /\ BranchesBeyond(SoleBody)) =>
     last.result = Err("UnknownLabel")

\* the parameters of the single function followed by its declared locals
SoleLocals == vm.functions[1].function_type.parameters \o vm.functions[1].locals

\* C23: GetLocal(i) and SetLocal(i) check i against the parameters followed
\* by the declared locals: in range GetLocal pushes the type of local i and
\* SetLocal accepts a value of that type, out of range the module is
\* rejected with UnknownLocal.
C23_LocalIndex ==
  SoleValidated =>
     /\ (Len(SoleBody) = 2 /\ SoleBody[1].op = "GetLocal"
           /\ SoleBody[2].op = "End") =>
          IF SoleBody[1].idx >= Len(SoleLocals)
          THEN last.result = Err("UnknownLocal")
          ELSE IF SoleReturns = <<SoleLocals[SoleBody[1].idx + 1]>>
          THEN last.result.ok
          ELSE last.result = Err("TypeMismatch")
     /\ (Len(SoleBody) = 3 /\ SoleBody[1].op = "I32Const"
           /\ SoleBody[2].op = "SetLocal" /\ SoleBody[3].op = "End") =>
          IF SoleBody[2].idx >= Len(SoleLocals)
          THEN last.result = Err("UnknownLocal")
          ELSE IF SoleLocals[SoleBody[2].idx + 1] # "I32"
          THEN last.result = Err("TypeMismatch")
          ELSE IF SoleReturns = <<>> THEN last.result.ok
          ELSE last.result = Err("TypeMismatch")

\* the operand type an integer instruction requires and the type of its
\* result, for the instructions of the bodies checked here
NumericType(o) ==
  CASE o = "I32Add" -> [arity |-> 2, operand |-> "I32", result |-> "I32"]
    [] o = "I32CountLeadingZero" ->
         [arity |-> 1, operand |-> "I32", result |-> "I32"]
    [] o = "I32EqualZero" -> [arity |-> 1, operand |-> "I32", result |-> "I32"]
    [] o = "I64EqualZero" -> [arity |-> 1, operand |-> "I64", result |-> "I32"]
    [] OTHER -> [arity |-> 2, operand |-> "I64", result |-> "I32"]
\* the type a const instruction pushes
PushedType(inst) ==
  CASE inst.op = "I32Const" -> "I32"
    [] inst.op = "I64Const" -> "I64"
    [] inst.op = "F32Const" -> "F32"
    [] OTHER -> "F64"
\* the body is constants, one for each operand of the numeric instruction
\* that follows them, and End
AppliesNumeric(body) ==
  /\ Len(body) \in {3, 4}
  /\ body[Len(body)].op = "End"
  /\ body[Len(body) - 1].op \in
       {"I32Add", "I32CountLeadingZero", "I32EqualZero", "I64EqualZero",
        "I64LessThanSign"}
  /\ NumericType(body[Len(body) - 1].op).arity = Len(body) - 2
  /\ \A k \in 1..(Len(body) - 2) :
        body[k].op \in {"I32Const", "I64Const", "F32Const", "F64Const"}

\* C24: a numeric instruction pops operands of the types its opcode requires
\* and pushes the opcode's result type: applied to constants of another type
\* (I32Add to two f64, I32CountLeadingZero to an f32, I64EqualZero to an i32)
\* it is rejected with TypeMismatch, and applied to constants of the required
\* type it leaves its result type, which the End of the function checks.
C24_NumericOperandTypes ==
  (SoleValidated /\ AppliesNumeric(SoleBody)) =>
     LET inst == NumericType(SoleBody[Len(SoleBody) - 1].op)
     IN  IF \A k \in 1..(Len(SoleBody) - 2) :
               PushedType(SoleBody[k]) = inst.operand
         THEN IF SoleReturns = <<inst.result>> THEN last.result.ok
              ELSE last.result = Err("TypeMismatch")
         ELSE last.result = Err("TypeMismatch")

\* the body is a Block with result i32 that pushes `pushed` constants, then
\* the instructions of `rest`, and the End of the function
BlockOfI32(pushed, rest) ==
  <<Op("Block"), RuntimeValue("I32")>> \o [k \in 1..pushed |-> I32Const(0)]
    \o <<Op("End")>> \o rest \o <<Op("End")>>

\* C30: after the End of a Block, Loop or If with declared result type t the
\* type stack is the enclosing stack of block entry with t on top, unchanged
\* for a block without result, so an instruction after End can consume the
\* result; values left beyond the declared result make End fail with
\* TypeMismatch.
C30_EndLeavesResult ==
  SoleValidated =>
     /\ (SoleBody = BlockOfI32(1, <<>>) /\ SoleReturns = <<"I32">>) =>
          last.result.ok
     /\ (SoleBody = BlockOfI32(1, <<Op("I32EqualZero")>>)
           /\ SoleReturns = <<"I32">>) => last.result.ok
     /\ SoleBody = BlockOfI32(2, <<>>) => last.result = Err("TypeMismatch")
     /\ (SoleBody \in {<<Op(kind), RuntimeValue("Empty"), Op("End"),
                         Op("End")>> : kind \in {"Block", "Loop"}}
           /\ SoleReturns = <<>>) => last.result.ok
     /\ SoleBody = <<Op("Loop"), RuntimeValue("Empty"), I32Const(0), Op("End"),
                     Op("End")>> => last.result = Err("TypeMismatch")

(***************************************************************************)
(* The resolution of a table import (specification SpecImport)             *)
(***************************************************************************)
\* the import of last is one of a table
ResolvedTable ==
  last.kind = "find_table_instance"
    /\ last.key.descriptor.kind = "ImportDescriptor::Table"
\* the tables of the external module exported under the imported name
NamedTables == {i \in 1..Len(vm.table_instances) :
                  vm.table_instances[i].export_name = Some(last.key.name)}
\* the actual limit lies within the declared one: its minimum is not below
\* the declared minimum, and where a maximum is declared it has one that is
\* not above it
LimitWithin(actual, declared) ==
  /\ actual.min >= declared.min
  /\ Len(declared.max) = 1 =>
        (Len(actual.max) = 1 /\ actual.max[1] <= declared.max[1])
\* the table of the external module fits the type the import declares
TableFits(actual, declared) ==
  /\ actual.element_type = declared.element_type
  /\ LimitWithin(actual.limit, declared.limit)

\* C25: resolving a table import succeeds only if the exported table has
\* the same element kind and its limits lie within the declared ones; a
\* table of the imported name whose limits do not fit is refused with
\* IncompatibleImportType, and a missing name gives UnknownImport.
C25_TableImport ==
  ResolvedTable =>
     /\ NamedTables = {} => last.result = Err("UnknownImport")
     /\ \A i \in NamedTables :
           (\A j \in NamedTables : i <= j) =>
              IF TableFits(vm.table_instances[i].table_type,
                           last.key.descriptor.table_type)
              THEN last.result = Ok(vm.table_instances[i])
              ELSE last.result = Err("IncompatibleImportType")
\* the outcome for a missing name, taken alone
C25_UnknownImport ==
  (ResolvedTable /\ NamedTables = {}) => last.result = Err("UnknownImport")

(***************************************************************************)
(* src/src/decode/sec_import.rs and the ExternalInterfaces of              *)
(* src/src/module.rs: the import section.  ExternalInterfaces is a HashMap *)
(* from (module_name, name) to the ExternalInterface, here a function on   *)
(* the set of its keys; the order in which a HashMap is iterated is not    *)
(* fixed by its contents, so iter is any enumeration of the entries.  In   *)
(* the specification SpecImportSection the variable vm holds the entries   *)
(* the section declares and the ExternalInterfaces decoded from them, last *)
(* the method called with its result.                                      *)
(***************************************************************************)
\* how many imports a section declares at most
MaxImports == 2

\* ExternalInterface::new
ExternalInterface_new(module_name, name, descriptor) ==
  [module_name |-> module_name, name |-> name, descriptor |-> descriptor]

\* ExternalInterfaces::new
ExternalInterfaces_new == [key \in {} |-> {}]

\* ExternalInterfaces::insert: HashMap::insert replaces the value of a key
\* that is present
ExternalInterfaces_insert(self, value) ==
  [key \in DOMAIN self \cup {<<value.module_name, value.name>>} |->
     IF key = <<value.module_name, value.name>> THEN value ELSE self[key]]

\* ExternalInterfaces::iter: the enumerations of the entries of the map
ExternalInterfaces_iter(self) ==
  {[i \in 1..Cardinality(DOMAIN self) |-> self[order[i]]] :
     order \in {o \in [1..Cardinality(DOMAIN self) -> DOMAIN self] :
                  \A i, j \in 1..Cardinality(DOMAIN self) :
                     o[i] = o[j] => i = j}}

\* the loop of Section::decode of sec_import.rs from the i-th declared
\* import on; an entry is the module name, the name and the descriptor that
\* decode_name and the match on the descriptor kind read for it
RECURSIVE import_Section_decode_from(_, _, _)
import_Section_decode_from(entries, i, imports) ==
  IF i > Len(entries) THEN Ok(imports)
  ELSE import_Section_decode_from(
         entries, i + 1,
         ExternalInterfaces_insert(
           imports,
           ExternalInterface_new(Some(entries[i].module_name), entries[i].name,
                                 entries[i].import_descriptor)))

\* Section::decode of sec_import.rs
import_Section_decode(entries) ==
  import_Section_decode_from(entries, 1, ExternalInterfaces_new)

\* ExternalInterfaces::group_by_kind
group_by_kind(self) ==
  LET of_kind(kind) ==
        [key \in {k \in DOMAIN self : self[k].descriptor.kind = kind}
           |-> self[key]]
  IN  IF \E key \in DOMAIN self :
            self[key].descriptor.kind \notin
              {"ImportDescriptor::Function", "ImportDescriptor::Table",
               "ImportDescriptor::Memory", "ImportDescriptor::Global"}
      THEN Unimplemented
      ELSE Ok([Function |-> of_kind("ImportDescriptor::Function"),
               Table |-> of_kind("ImportDescriptor::Table"),
               Memory |-> of_kind("ImportDescriptor::Memory"),
               Global |-> of_kind("ImportDescriptor::Global")])

\* the imports a section may declare
DeclaredImports ==
  {[module_name |-> module_name, name |-> name,
    import_descriptor |-> import_descriptor] :
     module_name \in {"m", "n"}, name \in {"f", "g"},
     import_descriptor \in
       {[kind |-> "ImportDescriptor::Function", idx |-> 0],
        [kind |-> "ImportDescriptor::Table",
         table_type |-> TableType_new("AnyFunc", [min |-> 1, max |-> <<>>])],
        [kind |-> "ImportDescriptor::Memory",
         limit |-> [min |-> 1, max |-> <<>>]],
        [kind |-> "ImportDescriptor::Global",
         global_type |-> [kind |-> "Const", ty |-> "I32"]]}}

RECURSIVE ImportSections(_)
\* the sections of at most n imports
ImportSections(n) ==
  IF n = 0 THEN {<<>>}
  ELSE ImportSections(n - 1)
       \cup {Append(s, x) : s \in {t \in ImportSections(n - 1) :
                                      Len(t) = n - 1},
                            x \in DeclaredImports}

InitImportSection ==
  /\ vm \in {[declared |-> entries, imports |-> ExternalInterfaces_new] :
               entries \in ImportSections(MaxImports)}
  /\ last = NoOperation
  /\ nruns = 0
  /\ trapped = FALSE

\* the import section is decoded
DecodeImports(r) ==
  /\ last = NoOperation
  /\ vm' = [vm EXCEPT !.imports = r.val]
  /\ last' = [kind |-> "decode", result |-> r]
  /\ UNCHANGED <<nruns, trapped>>

\* the decoded imports are enumerated
IterImports ==
  /\ last # NoOperation
  /\ \E list \in ExternalInterfaces_iter(vm.imports) :
        last' = [kind |-> "iter", result |-> list]
  /\ UNCHANGED <<vm, nruns, trapped>>

\* the decoded imports are grouped by their kind
GroupImports ==
  /\ last # NoOperation
  /\ last' = [kind |-> "group_by_kind", result |-> group_by_kind(vm.imports)]
  /\ UNCHANGED <<vm, nruns, trapped>>

NextImportSection ==
  \/ DecodeImports(import_Section_decode(vm.declared))
  \/ IterImports
  \/ GroupImports
SpecImportSection == InitImportSection /\ [][NextImportSection]_vars

\* the i-th declared import as the entry decode builds for it
DeclaredInterface(i) ==
  ExternalInterface_new(Some(vm.declared[i].module_name), vm.declared[i].name,
                        vm.declared[i].import_descriptor)

\* C26: the decoded import list preserves the import section: it has as
\* many entries as the section declares, in declaration order, also when two
\* imports name the same module and field, so that each import gets the
\* index of its position.
C26_ImportsPreserved ==
  last.kind = "iter" =>
     /\ Len(last.result) = Len(vm.declared)
     /\ \A i \in 1..Len(vm.declared) : last.result[i] = DeclaredInterface(i)
\* the number of decoded imports, taken alone
C26_ImportCount ==
  last.kind = "iter" => Len(last.result) = Len(vm.declared)

(***************************************************************************)
(* The order of the operands of a binary instruction (SpecInst)            *)
(***************************************************************************)
\* a is below b as signed integers of the same width: a negative and a
\* non-negative one compare by their signs, two of the same sign as naturals
SignedBelow(a, b) ==
  IF IsNeg(a) # IsNeg(b) THEN IsNeg(a) ELSE ULt(a, b)
\* the pattern a moved up by one bit position
ShiftedByOne(a) == <<0>> \o SubSeq(a, 1, Len(a) - 1)

\* C27: for every binary instruction the value pushed first is the left
\* operand and the value pushed last the right one (sub yields first minus
\* last, lt_s tells that the first is below the last, shl shifts the first by
\* the last), and both operands are removed and exactly one result is pushed.
C27_OperandOrder ==
  /\ (LastInst(TryBinaryInst) /\ Right.bits = One(Len(Right.bits))) =>
        /\ last.res = "Ok"
        /\ vm.stack_ptr = 1
        /\ Top.kind = "Value"
        /\ Top.v.bits = IF last.e.op \in {"I32RemSign", "I64RemSign",
                                          "I32RemUnsign", "I64RemUnsign"}
                        THEN Zero(Len(Left.bits)) ELSE Left.bits
  /\ (LastInst({o \in BinaryInst : binary_arm(o) \notin MissingMethods}
                \cup CaughtBinaryInst)
        /\ Left.ty = Right.ty) =>
     /\ last.res = "Ok"
     /\ vm.stack_ptr = 1
     /\ Top.kind = "Value"
     /\ LastInst({"I32Sub", "I64Sub", "F32Sub"}) =>
          Digits(Top.v.bits) = RefSub(Digits(Left.bits), Digits(Right.bits), 1, 0)
     /\ LastInst({"LessThanSign", "I64LessThanSign"}) =>
          (Top.v.bits # Zero(Len(Top.v.bits))) <=>
             SignedBelow(Left.bits, Right.bits)
     /\ LastInst({"LessThanUnsign", "I64LessThanUnSign"}) =>
          (Top.v.bits # Zero(Len(Top.v.bits))) <=> ULt(Left.bits, Right.bits)
     /\ (LastInst({"I32ShiftLeft", "I64ShiftLeft"})
           /\ Right.bits = One(Len(Right.bits))) =>
          Top.v.bits = ShiftedByOne(Left.bits)

(***************************************************************************)
(* The condition of Select and If (SpecInst)                               *)
(***************************************************************************)
\* the condition the instruction performed last has popped: the operand on
\* top of the stack
Condition == last.operands[Len(last.operands)]

\* C28: Select and If treat every non-zero i32 condition as true, negative
\* values such as -1 included: Select then pushes the operand pushed first
\* and If executes its then-branch; only the condition 0 selects the second
\* operand or the else-branch.
C28_NonZeroIsTrue ==
  /\ LastInst({"Select"}) =>
        /\ last.res = "Ok"
        /\ vm.stack_ptr = 1
        /\ Top.v = IF Condition.bits # Zero(32) THEN last.operands[1]
                   ELSE last.operands[2]
  /\ LastInst({"If"}) =>
        /\ last.res = "Ok"
        /\ vm.stack_ptr = 1
        /\ Top.v = IF Condition.bits # Zero(32) THEN I32(FromInt(1, 32))
                   ELSE I32(FromInt(2, 32))
\* the same for Select on the conditions that are not negative
C28_PositiveIsTrue ==
  (LastInst({"Select"}) /\ ~IsNeg(Condition.bits)) => C28_NonZeroIsTrue

(***************************************************************************)
(* The type of the result of a comparison: interpreter and validator       *)
(***************************************************************************)
\* the comparisons of two i64 operands
I64Comparisons ==
  {"I64Equal", "I64NotEqual", "I64LessThanSign", "I64LessThanUnSign",
   "I64GreaterThanSign", "I64GreaterThanUnSign", "I64LessEqualSign",
   "I64LessEqualUnSign", "I64GreaterEqualSign", "I64GreaterEqualUnSign"}
\* the type the validator leaves on top of a stack of the given operand types
\* after a comparison (rel_op!) and after a test (test_op!)
ValidatedComparison(types) == rel_op(types).stack[1]
ValidatedTest(types) == test_op(types).stack[1]

\* C29: interpreter and validator agree on the result type of comparisons:
\* every comparison and test instruction on i64 operands (eq, ne, lt, gt, le,
\* ge signed and unsigned, eqz) pushes an I32 value that is 0 or 1, the type
\* the validator assigns to it, never an I64 value.
C29_ComparisonType ==
  /\ (LastInst(I64Comparisons) /\ Left.ty = "I64" /\ Right.ty = "I64") =>
        /\ last.res = "Ok"
        /\ vm.stack_ptr = 1
        /\ Top.v.ty = ValidatedComparison(<<Left.ty, Right.ty>>)
        /\ Top.v \in {I32(Zero(32)), I32(One(32))}
  /\ (LastInst({"I64EqualZero"}) /\ Left.ty = "I64") =>
        /\ last.res = "Ok"
        /\ vm.stack_ptr = 1
        /\ Top.v.ty = ValidatedTest(<<Left.ty>>)
        /\ Top.v \in {I32(Zero(32)), I32(One(32))}
=============================================================================
